---- MODULE Spec2Model ----
(***************************************************************************)
(* A model of the nats-mq bridge: the connectors NATS2Queue, Queue2NATS    *)
(* and Queue2STAN (Start, messageHandler, Shutdown), the MQ and NATS       *)
(* client libraries they drive, and the bridge supervisor's closed-NATS    *)
(* handler and Stop.                                                       *)
(*                                                                         *)
(* Every connector method runs under the connector's mutex from its first  *)
(* statement to its return, so a method is one atomic step, except where   *)
(* it blocks inside a library call while holding the mutex (MQCTL STOP     *)
(* waiting for a consumer that is itself waiting for the mutex).  A Go     *)
(* nil-pointer dereference is a panic; an unrecovered panic ends the       *)
(* process (crashed).                                                      *)
(***************************************************************************)
EXTENDS Integers, Sequences, FiniteSets, TLC

VARIABLES
    kind,            \* which connector variant this connector is
    excludeHeaders,  \* config.ExcludeHeaders
    mq,              \* the connector's fields: qMgr, queue, ctlo, shutdownCB, sub, stats
    mqi,             \* the MQ client library: connections, objects, callbacks, dispatchers
    subs,            \* the NATS client: active subscriptions
    out,             \* what the connector sent: publishes/puts, Cmit/Back calls, ConnectorError tasks
    inflight,        \* sources (hConn or subscription) whose handler was invoked and has not returned
    lock,            \* the connector mutex: "free", or the method blocked while holding it
    crashed,         \* an unrecovered panic ended the process
    last,            \* observation: the last method call, its result and the library calls it made
    obs,             \* observation: call counters and the Shutdown results since the last Start
    bridge,          \* the supervisor: running flag, lock, NATS connection, tasks
    histogram,       \* the latency histogram the statistics record points to
    quant,           \* observation: the quantiles last read from the histogram
    snap,            \* observation: the snapshots Stats() returned, and what they showed then
    mqq,             \* the MQ queue read under syncpoint, and the STAN subscriber
    codec            \* the message under conversion: original, encoded, decoded

vars == <<kind, excludeHeaders, mq, mqi, subs, out, inflight, lock, crashed, last, obs, bridge,
          histogram, quant, snap, mqq, codec>>

\* The state the connector's methods do not touch
libVars == <<quant, snap, mqq, codec>>

connVars == <<kind, excludeHeaders, mq, mqi, subs, out, inflight, lock, crashed, last, obs, histogram>>

\* ------------------------------------------------------------------ bounds

MaxCalls == 3

MaxMsgs == 2

PayloadLen == 1

\* ------------------------------------------------------------------ histogram

MaxBinsBound == 2

MaxValue == 3

MaxOps == 4

\* The spare capacity of a slice of bins
MaxSpare == 2

\* A float64 is [s, m, e], the number s * m * 2^e: s is its sign (-1, 0 or 1), m its
\* mantissa of 53 bits and e its exponent.  The mantissa is a natural number held in
\* limbs of 15 bits, the lowest first and the highest not zero.  Every operation
\* gives the float64 nearest to its exact result, ties to the even mantissa, as the
\* machine does.  Zero is [s |-> 0, m |-> <<>>, e |-> 0]: the sign of a zero, which no
\* comparison sees, is left out, as are infinities, NaN and subnormal numbers, which
\* the values of the model stay far from.
LimbBase == 32768

\* F of the value of x, the value computed once
With(x, F(_)) ==
    CHOOSE r \in {F(v) : v \in {x}} : TRUE

\* A natural number in limbs without its leading zero limbs
RECURSIVE Strip(_)
Strip(n) ==
    With(n, LAMBDA a : IF a = <<>> \/ a[Len(a)] # 0 THEN a
                       ELSE Strip(SubSeq(a, 1, Len(a) - 1)))

\* a + sg * b + c, limb by limb, for sg 1 or -1; a >= b where sg is -1
RECURSIVE BigAdd(_, _, _, _)
BigAdd(a, b, sg, c) ==
    With(<<a, b, c>>, LAMBDA p :
        IF p[1] = <<>> /\ p[2] = <<>> THEN (IF p[3] = 0 THEN <<>> ELSE <<p[3]>>)
        ELSE With((IF p[1] = <<>> THEN 0 ELSE Head(p[1]))
                    + sg * (IF p[2] = <<>> THEN 0 ELSE Head(p[2])) + p[3],
                  LAMBDA x :
                    <<x % LimbBase>>
                      \o BigAdd(IF p[1] = <<>> THEN <<>> ELSE Tail(p[1]),
                                IF p[2] = <<>> THEN <<>> ELSE Tail(p[2]),
                                sg, x \div LimbBase)))

\* a * d + c for one limb d
RECURSIVE MulLimb(_, _, _)
MulLimb(a, d, c) ==
    With(<<a, c>>, LAMBDA p :
        IF p[1] = <<>> THEN (IF p[2] = 0 THEN <<>> ELSE <<p[2]>>)
        ELSE <<(Head(p[1]) * d + p[2]) % LimbBase>>
               \o MulLimb(Tail(p[1]), d, (Head(p[1]) * d + p[2]) \div LimbBase))

RECURSIVE BigMul(_, _)
BigMul(a, b) ==
    With(<<a, b>>, LAMBDA p :
        IF p[2] = <<>> THEN <<>>
        ELSE Strip(BigAdd(MulLimb(p[1], Head(p[2]), 0),
                          <<0>> \o BigMul(p[1], Tail(p[2])), 1, 0)))

\* a * 2^k
ShiftLeft(a, k) ==
    With(MulLimb(a, 2 ^ (k % 15), 0), LAMBDA n :
        IF n = <<>> THEN n ELSE [i \in 1 .. k \div 15 |-> 0] \o n)

\* <<a \div c, a % c>> for 0 < c < LimbBase
RECURSIVE BigDivSmall(_, _)
BigDivSmall(a, c) ==
    With(a, LAMBDA n :
        IF n = <<>> THEN <<<<>>, 0>>
        ELSE With(BigDivSmall(Tail(n), c), LAMBDA r :
                With(r[2] * LimbBase + Head(n), LAMBDA cur :
                    <<Strip(<<cur \div c>> \o r[1]), cur % c>>)))

BigLess(a, b) ==
    With(<<a, b>>, LAMBDA p :
        IF Len(p[1]) # Len(p[2]) THEN Len(p[1]) < Len(p[2])
        ELSE \E i \in 1 .. Len(p[1]) :
                /\ p[1][i] < p[2][i]
                /\ \A j \in i + 1 .. Len(p[1]) : p[1][j] = p[2][j])

\* The float64 nearest to s * n * 2^e for a natural number n > 0, ties to even;
\* sticky says that the exact number is a little more than n * 2^e
Round(s, n0, e, sticky) ==
    With(n0, LAMBDA n :
        LET bits == (Len(n) - 1) * 15
                      + (CHOOSE k \in 1 .. 15 : 2 ^ (k - 1) <= n[Len(n)] /\ n[Len(n)] < 2 ^ k)
            d    == bits - 53
        IN  IF d <= 0 THEN [s |-> s, m |-> ShiftLeft(n, -d), e |-> e + d]
            ELSE With(BigDivSmall(SubSeq(n, (d \div 15) + 1, Len(n)), 2 ^ (d % 15))[1],
                      LAMBDA q :
                 With(<<Strip(BigAdd(n, ShiftLeft(q, d), -1, 0)), ShiftLeft(<<1>>, d - 1)>>,
                      LAMBDA rh :
                 LET r    == rh[1]
                     half == rh[2]
                     up   == \/ BigLess(half, r)
                             \/ r = half /\ (sticky \/ q[1] % 2 = 1)
                 IN  With(IF up THEN BigAdd(q, <<1>>, 1, 0) ELSE q, LAMBDA q1 :
                        IF q1 = ShiftLeft(<<1>>, 53)
                        THEN [s |-> s, m |-> ShiftLeft(<<1>>, 52), e |-> e + d + 1]
                        ELSE [s |-> s, m |-> q1, e |-> e + d]))))

\* x + y
FAdd(x0, y0) ==
    With(<<x0, y0>>, LAMBDA p :
        LET x == p[1]
            y == p[2]
            e == IF x.e < y.e THEN x.e ELSE y.e
        IN  IF x.s = 0 THEN y
            ELSE IF y.s = 0 THEN x
            ELSE With(<<ShiftLeft(x.m, x.e - e), ShiftLeft(y.m, y.e - e)>>, LAMBDA m :
                    IF x.s = y.s THEN Round(x.s, BigAdd(m[1], m[2], 1, 0), e, FALSE)
                    ELSE IF m[1] = m[2] THEN [s |-> 0, m |-> <<>>, e |-> 0]
                    ELSE IF BigLess(m[1], m[2])
                         THEN Round(y.s, Strip(BigAdd(m[2], m[1], -1, 0)), e, FALSE)
                         ELSE Round(x.s, Strip(BigAdd(m[1], m[2], -1, 0)), e, FALSE)))

\* x < y: the mantissas of two numbers other than zero have 53 bits both, so the
\* exponents decide first
FLess(x0, y0) ==
    With(<<x0, y0>>, LAMBDA p :
        LET x == p[1]
            y == p[2]
        IN  IF x.s # y.s THEN x.s < y.s
            ELSE IF x.s = 0 THEN FALSE
            ELSE IF x.s = 1 THEN x.e < y.e \/ (x.e = y.e /\ BigLess(x.m, y.m))
            ELSE y.e < x.e \/ (x.e = y.e /\ BigLess(y.m, x.m)))

\* x * y
FMul(x0, y0) ==
    With(<<x0, y0>>, LAMBDA p :
        IF p[1].s = 0 \/ p[2].s = 0 THEN [s |-> 0, m |-> <<>>, e |-> 0]
        ELSE Round(p[1].s * p[2].s, BigMul(p[1].m, p[2].m), p[1].e + p[2].e, FALSE))

\* x / float64(c) for an integer c, 0 < c < LimbBase
FDiv(x0, c) ==
    With(x0, LAMBDA x :
        IF x.s = 0 THEN x
        ELSE With(BigDivSmall(ShiftLeft(x.m, 30), c), LAMBDA qr :
                Round(x.s, qr[1], x.e - 30, qr[2] # 0)))

\* float64(n) / float64(d) for integers n and d, |n| < LimbBase and 0 < d < LimbBase
Float(n, d) ==
    IF n = 0 THEN [s |-> 0, m |-> <<>>, e |-> 0]
    ELSE FDiv(Round(IF n < 0 THEN -1 ELSE 1, <<IF n < 0 THEN -n ELSE n>>, 0, FALSE), d)

\* NewHistogram(n)
NewHistogram(n) ==
    [Bins |-> <<>>, MaxBins |-> n, Total |-> 0]

\* trim, lines 160-186: one turn of the loop.  The two adjacent bins whose
\* difference is the smallest, the first such pair as the differences are computed,
\* become one bin, their weighted mean.  With fewer than two bins no difference is
\* below minDelta, minDeltaIndex stays 0 and h.Bins[-1] panics: the histogram is
\* then given back as it is, marked with a field panic.  (Every difference of the
\* model is below the 1e99 minDelta starts from.)
mergeClosest(h) ==
    With(h, LAMBDA hh :
    LET b     == hh.Bins
        delta == [i \in 2 .. Len(b) |-> FAdd(b[i].Value, [b[i - 1].Value EXCEPT !.s = -@])]
    IN  IF Len(b) < 2
        THEN [Bins |-> b, MaxBins |-> hh.MaxBins, Total |-> hh.Total, panic |-> TRUE]
        ELSE With(CHOOSE i \in 2 .. Len(b) :
                    /\ \A j \in 2 .. Len(b) : ~FLess(delta[j], delta[i])
                    /\ \A j \in 2 .. i - 1 : FLess(delta[i], delta[j]),
                  LAMBDA idx :
             LET total  == b[idx - 1].Count + b[idx].Count
                 merged == [Value |-> FDiv(FAdd(FMul(b[idx - 1].Value,
                                                     Float(b[idx - 1].Count, 1)),
                                                FMul(b[idx].Value, Float(b[idx].Count, 1))),
                                           total),
                            Count |-> total]
             IN  [hh EXCEPT !.Bins = SubSeq(b, 1, idx - 2) \o <<merged>>
                                       \o SubSeq(b, idx + 1, Len(b))]))

\* Histogram.trim
RECURSIVE trim(_)
trim(h) ==
    With(h, LAMBDA hh :
        IF "panic" \in DOMAIN hh \/ Len(hh.Bins) <= hh.MaxBins THEN hh
        ELSE trim(mergeClosest(hh)))

\* Histogram.Add, lines 63-82: count the sample in the bin of its value, or give it
\* a bin of its own before the first bin of a greater value
Histogram_insert(h, n) ==
    With(h, LAMBDA hh :
    LET b   == hh.Bins
        hit == {i \in 1 .. Len(b) : ~FLess(b[i].Value, n)}
        h1  == [hh EXCEPT !.Total = @ + 1]
    IN  IF hit = {}
        THEN [h1 EXCEPT !.Bins = Append(b, [Value |-> n, Count |-> 1])]
        ELSE LET i == CHOOSE k \in hit : \A j \in hit : k <= j
             IN  IF b[i].Value = n
                 THEN [h1 EXCEPT !.Bins[i].Count = @ + 1]
                 ELSE [h1 EXCEPT !.Bins = SubSeq(b, 1, i - 1)
                                          \o <<[Value |-> n, Count |-> 1]>>
                                          \o SubSeq(b, i, Len(b))])

\* Histogram.Add
Histogram_Add(hh, n) ==
    trim(Histogram_insert(hh, n))

\* Histogram.Scale
Histogram_Scale(hh, s) ==
    [hh EXCEPT !.Bins = [i \in 1 .. Len(hh.Bins) |->
                            [hh.Bins[i] EXCEPT !.Value = FMul(@, s)]]]

\* sort.Sort(sortByValue(bins)): for the few bins of the model sort.Sort is an
\* insertion sort, which moves a bin left past the bins of a strictly greater value
RECURSIVE sortByValue(_)
sortByValue(bins) ==
    With(bins, LAMBDA b :
        IF Len(b) <= 1 THEN b
        ELSE With(sortByValue(SubSeq(b, 1, Len(b) - 1)), LAMBDA init :
             LET x == b[Len(b)]
                 k == Cardinality({i \in 1 .. Len(init) : ~FLess(x.Value, init[i].Value)})
             IN  SubSeq(init, 1, k) \o <<x>> \o SubSeq(init, k + 1, Len(init))))

\* MergeWith takes a pointer to the other histogram, so it works on a memory mem
\* of histograms and arrays: mem.hist[r] is the struct the pointer r refers to,
\* whose Bins is a slice, the first len elements of the array mem.arr[arr] (the
\* rest of the array is the slice's spare capacity); mem.panic is a panic raised.
\* The histogram at r, its bins read through the slice
HistogramAt(mem, r) ==
    [Bins    |-> SubSeq(mem.arr[mem.hist[r].Bins.arr], 1, mem.hist[r].Bins.len),
     MaxBins |-> mem.hist[r].MaxBins,
     Total   |-> mem.hist[r].Total]

\* Histogram.MergeWith appending h's bins to the slice of other: the bins land in
\* the array of other when it has the capacity, and the sort then moves them
Histogram_append_OntoOther(mem, h, other) ==
    With([mem EXCEPT !.hist[h].Total = @ + mem.hist[other].Total], LAMBDA m1 :
      With([s |-> m1.hist[other].Bins,
            a |-> m1.arr[m1.hist[other].Bins.arr],
            src |-> HistogramAt(m1, h).Bins], LAMBDA v :
        LET n == v.s.len + Len(v.src)
        IN  With(IF n <= Len(v.a)
                 THEN [m1 EXCEPT
                         !.arr[v.s.arr] = SubSeq(v.a, 1, v.s.len) \o v.src
                                             \o SubSeq(v.a, n + 1, Len(v.a)),
                         !.hist[h].Bins = [arr |-> v.s.arr, len |-> n]]
                 ELSE [m1 EXCEPT
                         !.arr = Append(@, SubSeq(v.a, 1, v.s.len) \o v.src),
                         !.hist[h].Bins = [arr |-> Len(m1.arr) + 1, len |-> n]],
                 LAMBDA m2 :
                   [m2 EXCEPT !.arr[m2.hist[h].Bins.arr] =
                       sortByValue(SubSeq(@, 1, n)) \o SubSeq(@, n + 1, Len(@))])))

\* Histogram.MergeWith, lines 151-153: before the trim. Line 151 adds the total
\* read through other; line 152 appends the bins read through other to h.Bins,
\* in the array of h.Bins when its capacity allows and in a new array when it
\* does not; line 153 sorts the elements of h.Bins where they are
Histogram_append(mem, h, other) ==
    With([mem EXCEPT !.hist[h].Total = @ + mem.hist[other].Total], LAMBDA m1 :
      With([s |-> m1.hist[h].Bins,
            a |-> m1.arr[m1.hist[h].Bins.arr],
            src |-> HistogramAt(m1, other).Bins], LAMBDA v :
        LET n == v.s.len + Len(v.src)
        IN  With(IF n <= Len(v.a)
                 THEN [m1 EXCEPT
                         !.arr[v.s.arr] = SubSeq(v.a, 1, v.s.len) \o v.src
                                             \o SubSeq(v.a, n + 1, Len(v.a)),
                         !.hist[h].Bins = [arr |-> v.s.arr, len |-> n]]
                 ELSE [m1 EXCEPT
                         !.arr = Append(@, SubSeq(v.a, 1, v.s.len) \o v.src),
                         !.hist[h].Bins = [arr |-> Len(m1.arr) + 1, len |-> n]],
                 LAMBDA m2 :
                   [m2 EXCEPT !.arr[m2.hist[h].Bins.arr] =
                       sortByValue(SubSeq(@, 1, n)) \o SubSeq(@, n + 1, Len(@))])))

\* Histogram.MergeWith: h.trim() after the append and the sort. A trim that
\* merges bins builds the bins in a new array and points h.Bins at it; a trim
\* that panics has written the bins it merged before
Histogram_MergeWith(mem, h, other) ==
    With(Histogram_append(mem, h, other), LAMBDA m :
      With(trim(HistogramAt(m, h)), LAMBDA t :
        IF Len(t.Bins) = m.hist[h].Bins.len
        THEN [m EXCEPT !.panic = "panic" \in DOMAIN t]
        ELSE [m EXCEPT !.panic = "panic" \in DOMAIN t,
                       !.arr = Append(@, t.Bins),
                       !.hist[h].Bins = [arr |-> Len(m.arr) + 1, len |-> Len(t.Bins)]]))

\* Histogram.Quantile, lines 89-97: the loop from bin i on with count left
RECURSIVE quantileFrom(_, _, _)
quantileFrom(b, i, count) ==
    IF i > Len(b) THEN Float(-1, 1)
    ELSE With(FAdd(count, Float(-b[i].Count, 1)), LAMBDA c :
            IF ~FLess(Float(0, 1), c) THEN b[i].Value ELSE quantileFrom(b, i + 1, c))

\* Histogram.Quantile
Histogram_Quantile(hh, q) ==
    quantileFrom(hh.Bins, 1, FMul(q, Float(hh.Total, 1)))

\* ------------------------------------------------------------------ statistics

\* The address of the connector's latency histogram: NewHistogram returns a pointer
HistogramRef == 1

\* The bins of a connector's latency histogram
StatsBins == 160

NewConnectorStats ==
    [connects |-> 0, disconnects |-> 0, msgIn |-> 0, bytesIn |-> 0,
     msgOut |-> 0, bytesOut |-> 0, requests |-> 0, histogram |-> HistogramRef]

AddConnect(w) ==
    [w EXCEPT !.mq.stats.connects = @ + 1]

AddDisconnect(w) ==
    [w EXCEPT !.mq.stats.disconnects = @ + 1]

AddMessageIn(w, n) ==
    [w EXCEPT !.mq.stats.msgIn = @ + 1, !.mq.stats.bytesIn = @ + n]

AddMessageOut(w, n) ==
    [w EXCEPT !.mq.stats.msgOut = @ + 1, !.mq.stats.bytesOut = @ + n]

\* AddRequestTime: the request is counted and its time added to the histogram the
\* record points to
AddRequestTime(w, d) ==
    With(Histogram_Add(w.histogram, d), LAMBDA h :
        [w EXCEPT !.mq.stats.requests = @ + 1,
                  !.histogram = [Bins |-> h.Bins, MaxBins |-> h.MaxBins, Total |-> h.Total],
                  !.crashed = @ \/ "panic" \in DOMAIN h])

\* ------------------------------------------------------------------ the world a method acts on

Kinds == {"NATS2Queue", "Queue2NATS", "Queue2STAN"}

NewConnector ==
    [qMgr |-> 0, queue |-> 0, ctlo |-> FALSE, shutdownCB |-> 0, sub |-> 0,
     stats |-> NewConnectorStats]

NewMQI ==
    [conns |-> {}, objs |-> {}, cbs |-> {}, started |-> {}, next |-> 1]

NewOut ==
    [sent |-> <<>>, tx |-> <<>>, connErrs |-> 0]

World ==
    [mq |-> mq, mqi |-> mqi, subs |-> subs, out |-> out, inflight |-> inflight,
     lock |-> lock, crashed |-> crashed, excl |-> excludeHeaders,
     histogram |-> histogram,
     log |-> <<>>, ret |-> "none"]

Log(w, op, ok) ==
    [w EXCEPT !.log = Append(@, [op |-> op, ok |-> ok])]

Return(w, r) ==
    [w EXCEPT !.ret = r]

Panic(w) ==
    [w EXCEPT !.ret = "panic", !.crashed = TRUE]

\* The number of calls of the library operation op in a call log
Calls(log, op) ==
    Cardinality({i \in 1 .. Len(log) : log[i].op = op})

\* ------------------------------------------------------------------ MQ and NATS client calls

\* ibmmq.Connx: a new connection handle, or an error
ConnectToQueueManager(w, ok) ==
    IF ok
    THEN Log([w EXCEPT !.mqi.conns = @ \cup {w.mqi.next}, !.mqi.next = @ + 1], "Connx", TRUE)
    ELSE Log(w, "Connx", FALSE)

\* qMgr.Open: a new object handle on connection h, or an error
Open(w, h, ok) ==
    IF ok
    THEN Log([w EXCEPT !.mqi.objs = @ \cup {<<w.mqi.next, h>>}, !.mqi.next = @ + 1], "Open", TRUE)
    ELSE Log(w, "Open", FALSE)

\* qObject.CB(MQOP_REGISTER, ...)
CB(w, q, ok) ==
    IF ok
    THEN Log([w EXCEPT !.mqi.cbs = @ \cup {q}], "CB", TRUE)
    ELSE Log(w, "CB", FALSE)

\* qMgr.Ctl(MQOP_START, ctlo): starts the callback dispatcher of connection h
CtlStart(w, h, ok) ==
    IF ok
    THEN Log([w EXCEPT !.mqi.started = @ \cup {h}], "CtlStart", TRUE)
    ELSE Log(w, "CtlStart", FALSE)

\* qMgr.Ctl(MQOP_STOP, ctlo) returning: on success the dispatcher of h is stopped
CtlStop(w, h, ok) ==
    IF ok
    THEN Log([w EXCEPT !.mqi.started = @ \ {h}], "CtlStop", TRUE)
    ELSE Log(w, "CtlStop", FALSE)

\* queue.Close(0): on success the object, and the callback registered on it, are gone
Close(w, q, ok) ==
    IF ok
    THEN Log([w EXCEPT !.mqi.objs = {o \in @ : o[1] # q}, !.mqi.cbs = @ \ {q}], "Close", TRUE)
    ELSE Log(w, "Close", FALSE)

\* qMgr.Disc(): on success the connection, its objects and its dispatcher are gone
Disc(w, h, ok) ==
    IF ok
    THEN Log([w EXCEPT !.mqi.conns = @ \ {h},
                       !.mqi.cbs = @ \ {o[1] : o \in {p \in w.mqi.objs : p[2] = h}},
                       !.mqi.objs = {o \in @ : o[2] # h},
                       !.mqi.started = @ \ {h}], "Disc", TRUE)
    ELSE Log(w, "Disc", FALSE)

\* bridge.NATS().Subscribe(subject, handler)
Subscribe(w, ok) ==
    IF ok
    THEN Log([w EXCEPT !.subs = @ \cup {w.mqi.next}, !.mqi.next = @ + 1], "Subscribe", TRUE)
    ELSE Log(w, "Subscribe", FALSE)

\* sub.Unsubscribe(): the result is not looked at by the caller
Unsubscribe(w, s, ok) ==
    IF ok
    THEN Log([w EXCEPT !.subs = @ \ {s}], "Unsubscribe", TRUE)
    ELSE Log(w, "Unsubscribe", FALSE)

\* ------------------------------------------------------------------ Start

\* NATS2QueueConnector.Start counting the connect before it connects, and going on
\* after a failed Subscribe
NATS2Queue_Start_CountsFirst(w, failAt) ==
    IF failAt = "output" THEN Return(Log(w, "Output", FALSE), "error")
    ELSE
    LET h  == w.mqi.next
        w1 == ConnectToQueueManager(AddConnect(Log(w, "Output", TRUE)), failAt # "connect")
    IN  IF failAt = "connect" THEN Return(w1, "error")
        ELSE
        LET q  == w1.mqi.next
            w2 == Open([w1 EXCEPT !.mq.qMgr = h], h, failAt # "open")
        IN  IF failAt = "open" THEN Return(w2, "error")
            ELSE
            LET s  == w2.mqi.next
                w3 == Subscribe([w2 EXCEPT !.mq.queue = q], failAt # "sub")
            IN  Return([w3 EXCEPT !.mq.sub = s], "nil")

\* NATS2QueueConnector.Start
NATS2Queue_Start(w, failAt) ==
    IF failAt = "output" THEN Return(Log(w, "Output", FALSE), "error")
    ELSE
    LET h  == w.mqi.next
        w1 == ConnectToQueueManager(Log(w, "Output", TRUE), failAt # "connect")
    IN  IF failAt = "connect" THEN Return(w1, "error")
        ELSE
        LET q  == w1.mqi.next
            w2 == Open([w1 EXCEPT !.mq.qMgr = h], h, failAt # "open")
        IN  IF failAt = "open" THEN Return(w2, "error")
            ELSE
            LET s  == w2.mqi.next
                w3 == Subscribe([w2 EXCEPT !.mq.queue = q], failAt # "sub")
            IN  IF failAt = "sub" THEN Return(w3, "error")
                ELSE Return(AddConnect([w3 EXCEPT !.mq.sub = s]), "nil")

\* BridgeConnector.connectToMQ: connects and keeps the handle in mq.qMgr
connectToMQ(w, ok) ==
    LET w1 == ConnectToQueueManager(w, ok)
    IN  IF ok THEN [w1 EXCEPT !.mq.qMgr = w.mqi.next] ELSE w1

\* BridgeConnector.connectToQueue: opens the queue on mq.qMgr
connectToQueue(w, ok) ==
    Open(w, w.mq.qMgr, ok)

\* BridgeConnector.setUpListener: registers the callback on the queue and starts
\* the dispatcher of mq.qMgr
setUpListener(w, q, cbOk, ctlOk) ==
    LET w1 == CB(w, q, cbOk)
    IN  IF cbOk THEN CtlStart(w1, w.mq.qMgr, ctlOk) ELSE w1

\* Queue2NATSConnector.Start
Queue2NATS_Start(w, failAt) ==
    IF failAt = "output" THEN Return(Log(w, "Output", FALSE), "error")
    ELSE
    LET w1 == connectToMQ(Log(w, "Output", TRUE), failAt # "connect")
    IN  IF failAt = "connect" THEN Return(w1, "error")
        ELSE
        LET q  == w1.mqi.next
            w2 == connectToQueue(w1, failAt # "open")
        IN  IF failAt = "open" THEN Return(w2, "error")
            ELSE
            LET w3 == setUpListener([w2 EXCEPT !.mq.queue = q], q,
                                    failAt # "cb", failAt # "ctl")
            IN  IF failAt \in {"cb", "ctl"} THEN Return(w3, "error")
                ELSE Return(AddConnect([w3 EXCEPT !.mq.shutdownCB = w3.mq.qMgr]), "nil")

\* Queue2STANConnector.Start
Queue2STAN_Start(w, failAt) ==
    IF failAt = "output" THEN Return(Log(w, "Output", FALSE), "error")
    ELSE
    LET h  == w.mqi.next
        w1 == ConnectToQueueManager(Log(w, "Output", TRUE), failAt # "connect")
    IN  IF failAt = "connect" THEN Return(w1, "error")
        ELSE
        LET q  == w1.mqi.next
            w2 == Open([w1 EXCEPT !.mq.qMgr = h], h, failAt # "open")
        IN  IF failAt = "open" THEN Return(w2, "error")
            ELSE
            LET w3 == CB([w2 EXCEPT !.mq.queue = q], q, failAt # "cb")
            IN  IF failAt = "cb" THEN Return(w3, "error")
                ELSE
                LET w4 == CtlStart([w3 EXCEPT !.mq.ctlo = TRUE], h, failAt # "ctl")
                IN  IF failAt = "ctl" THEN Return(w4, "error")
                    ELSE Return(AddConnect(w4), "nil")

\* ------------------------------------------------------------------ Shutdown

\* The outcome of each library call Shutdown may make.
ShutdownOutcomes ==
    [stop : BOOLEAN, close : BOOLEAN, disc : BOOLEAN, unsub : BOOLEAN]

\* NATS2QueueConnector.Shutdown unsubscribing before it closes the queue
NATS2Queue_Shutdown_UnsubscribesFirst(w, o) ==
    LET w0  == AddDisconnect(w)
        w1  == IF w0.mq.sub # 0
               THEN [Unsubscribe(w0, w0.mq.sub, o.unsub) EXCEPT !.mq.sub = 0]
               ELSE w0
        q   == w1.mq.queue
        w2  == IF q # 0 THEN Close([w1 EXCEPT !.mq.queue = 0], q, o.close) ELSE w1
        err == q # 0 /\ ~o.close
        w3  == IF w2.mq.qMgr # 0
               THEN [Disc(w2, w2.mq.qMgr, o.disc) EXCEPT !.mq.qMgr = 0]
               ELSE w2
    IN  Return(w3, IF err THEN "error" ELSE "nil")

\* NATS2QueueConnector.Shutdown
NATS2Queue_Shutdown(w, o) ==
    LET w0  == AddDisconnect(w)
        q   == w0.mq.queue
        w1  == IF q # 0 THEN Close([w0 EXCEPT !.mq.queue = 0], q, o.close) ELSE w0
        err == q # 0 /\ ~o.close
        w2  == IF w1.mq.qMgr # 0
               THEN [Disc(w1, w1.mq.qMgr, o.disc) EXCEPT !.mq.qMgr = 0]
               ELSE w1
        w3  == IF w2.mq.sub # 0
               THEN [Unsubscribe(w2, w2.mq.sub, o.unsub) EXCEPT !.mq.sub = 0]
               ELSE w2
    IN  Return(w3, IF err THEN "error" ELSE "nil")

\* Queue2NATSConnector.Shutdown returning as soon as closing the queue fails
Queue2NATS_release_StopsAtError(w, o) ==
    LET q   == w.mq.queue
        w1  == IF q # 0 THEN Close([w EXCEPT !.mq.queue = 0], q, o.close) ELSE w
        w2  == IF w1.mq.qMgr # 0
               THEN [Disc(w1, w1.mq.qMgr, o.disc) EXCEPT !.mq.qMgr = 0]
               ELSE w1
    IN  IF q # 0 /\ ~o.close THEN Return(w1, "nil") ELSE Return(w2, "nil")

\* Queue2NATSConnector.Shutdown, lines 77-96: close the queue, disconnect; no error is returned
Queue2NATS_release(w, o) ==
    LET q   == w.mq.queue
        w1  == IF q # 0 THEN Close([w EXCEPT !.mq.queue = 0], q, o.close) ELSE w
        w2  == IF w1.mq.qMgr # 0
               THEN [Disc(w1, w1.mq.qMgr, o.disc) EXCEPT !.mq.qMgr = 0]
               ELSE w1
    IN  Return(w2, "nil")

\* Queue2NATSConnector.Shutdown.  The shutdown callback stops the dispatcher of the
\* connection it was set up on; MQCTL STOP returns only when that connection's
\* consumer has returned, and Shutdown holds the connector mutex while it waits.
Queue2NATS_Shutdown(w, o) ==
    LET w0 == AddDisconnect(w)
        h  == w0.mq.shutdownCB
    IN  IF h # 0
        THEN IF o.stop /\ h \in w0.inflight
             THEN Return([w0 EXCEPT !.lock = "Shutdown"], "blocked")
             ELSE Queue2NATS_release([CtlStop(w0, h, o.stop) EXCEPT !.mq.shutdownCB = 0], o)
        ELSE Queue2NATS_release(w0, o)

\* Queue2STANConnector.Shutdown, lines 285-300: close the queue, disconnect, return
\* the error of Close
Queue2STAN_release(w, o) ==
    LET q   == w.mq.queue
        w1  == IF q # 0 THEN Close([w EXCEPT !.mq.queue = 0], q, o.close) ELSE w
        err == q # 0 /\ ~o.close
        w2  == IF w1.mq.qMgr # 0
               THEN [Disc(w1, w1.mq.qMgr, o.disc) EXCEPT !.mq.qMgr = 0]
               ELSE w1
    IN  Return(w2, IF err THEN "error" ELSE "nil")

\* Queue2STANConnector.Shutdown.  mq.ctlo is never reset, so with mq.qMgr nil the
\* call mq.qMgr.Ctl dereferences a nil queue manager.
Queue2STAN_Shutdown(w, o) ==
    LET w0 == AddDisconnect(w)
        h  == w0.mq.qMgr
    IN  IF w0.mq.ctlo
        THEN IF h = 0 THEN Panic(w0)
             ELSE IF o.stop /\ h \in w0.inflight
             THEN Return([w0 EXCEPT !.lock = "Shutdown"], "blocked")
             ELSE Queue2STAN_release(CtlStop(w0, h, o.stop), o)
        ELSE Queue2STAN_release(w0, o)

\* ------------------------------------------------------------------ message handlers

EnvelopeOverhead == 1

\* The time a handler takes from its start to the end of its publish, in the unit
\* the histogram counts in
RequestTime == Float(1, 1)

\* qmgrFlag: the queue manager a handler gives to the conversion, mq.qMgr unless
\* ExcludeHeaders is set (0 is nil)
qmgrFlag(w) ==
    IF w.excl THEN 0 ELSE w.mq.qMgr

\* bridge.MQToNATSMessage / bridge.NATSToMQMessage: with a nil queue manager the
\* payload is passed through unchanged and nothing can fail; otherwise the payload
\* is wrapped in (or unwrapped from) an envelope, which may fail.
Convert(len, convOk, qmgrNil) ==
    IF qmgrNil THEN [len |-> len, env |-> FALSE, err |-> FALSE]
    ELSE IF convOk THEN [len |-> len + EnvelopeOverhead, env |-> TRUE, err |-> FALSE]
    ELSE [len |-> 0, env |-> FALSE, err |-> TRUE]

\* The output-side call (Stan().Publish, NATS().Publish, queue.Put) for a converted message
Forward(w, m, ok) ==
    [w EXCEPT !.out.sent = Append(@, [len |-> m.len, env |-> m.env, convErr |-> m.err, ok |-> ok])]

\* mq.qMgr.Cmit() / mq.qMgr.Back(): the call is made, and dereferences mq.qMgr
Syncpoint(w, call) ==
    LET w1 == [w EXCEPT !.out.tx = Append(@, call)]
    IN  IF w.mq.qMgr = 0 THEN Panic(w1) ELSE w1

\* The publish step committing whether or not the publish succeeded
Queue2STAN_publish_AlwaysCommits(w, m, pubOk, time) ==
    LET w1 == Forward(w, m, pubOk)
        w2 == Syncpoint(w1, "Cmit")
    IN  IF w2.crashed \/ ~pubOk THEN w2 ELSE AddRequestTime(AddMessageOut(w2, m.len), time)

\* The publish step leaving the unit of work open after a failed publish
Queue2STAN_publish_NoBackout(w, m, pubOk, time) ==
    LET w1 == Forward(w, m, pubOk)
    IN  IF ~pubOk
        THEN w1
        ELSE LET w2 == Syncpoint(w1, "Cmit")
             IN  IF w2.crashed THEN w2 ELSE AddRequestTime(AddMessageOut(w2, m.len), time)

\* Queue2STANConnector.messageHandler, lines 259-268: publish, then commit or back out
Queue2STAN_publish(w, m, pubOk, time) ==
    LET w1 == Forward(w, m, pubOk)
    IN  IF ~pubOk
        THEN Syncpoint(w1, "Back")
        ELSE LET w2 == Syncpoint(w1, "Cmit")
             IN  IF w2.crashed THEN w2 ELSE AddRequestTime(AddMessageOut(w2, m.len), time)

\* The completion check escalating "no message available" like any other failure
Queue2STAN_onError_EscalatesAll(w, in) ==
    [w EXCEPT !.out.connErrs = @ + 1]

\* Queue2STANConnector.messageHandler, lines 231-240: the MQ completion
Queue2STAN_onError(w, in) ==
    IF in.mqErr = "nomsg" THEN w
    ELSE [w EXCEPT !.out.connErrs = @ + 1]

\* Queue2STANConnector.messageHandler
Queue2STAN_messageHandler(w, in) ==
    IF in.mqErr # "nil" THEN Return(Queue2STAN_onError(w, in), "nil")
    ELSE
    LET w1 == AddMessageIn(w, in.len)
        m  == Convert(in.len, in.conv, qmgrFlag(w) = 0)
        w2 == Queue2STAN_publish(w1, m, in.pub, in.time)
    IN  IF w2.crashed THEN w2 ELSE Return(w2, "nil")

\* The put step counting the message out whether or not the put succeeded
NATS2Queue_put_CountsFailures(w, m, putOk, time) ==
    IF w.mq.queue = 0 THEN Panic(w)
    ELSE AddRequestTime(AddMessageOut(Forward(w, m, putOk), m.len), time)

\* NATS2QueueConnector.messageHandler, lines 121-133: put, dereferencing mq.queue
NATS2Queue_put(w, m, putOk, time) ==
    IF w.mq.queue = 0 THEN Panic(w)
    ELSE LET w1 == Forward(w, m, putOk)
         IN  IF putOk THEN AddRequestTime(AddMessageOut(w1, m.len), time) ELSE w1

\* NATS2QueueConnector.messageHandler: the MQ completion of the input plays no part
NATS2Queue_messageHandler(w, in) ==
    LET w1 == AddMessageIn(w, in.len)
        m  == Convert(in.len, in.conv, qmgrFlag(w) = 0)
        w2 == NATS2Queue_put(w1, m, in.pub, in.time)
    IN  IF w2.crashed THEN w2 ELSE Return(w2, "nil")

\* BridgeConnector.natsMessageHandler, the listener Queue2NATSConnector.Start registers
\* (queue2nats.go line 49): the steps of the MQ input path.  The MQ completion is
\* treated as Queue2STAN treats it; the conversion is given a nil queue manager iff
\* ExcludeHeaders is set; a message whose conversion fails is dropped; a message is
\* published, then committed, or backed out if the publish failed.
natsMessageHandler(w, in) ==
    IF in.mqErr # "nil" THEN Return(Queue2STAN_onError(w, in), "nil")
    ELSE
    LET w1 == AddMessageIn(w, in.len)
        m  == Convert(in.len, in.conv, w.excl)
        w2 == IF m.err THEN w1 ELSE Queue2STAN_publish(w1, m, in.pub, in.time)
    IN  IF w2.crashed THEN w2 ELSE Return(w2, "nil")

\* ------------------------------------------------------------------ dispatch on the variant

ConnectorStart(k, w, failAt) ==
    CASE k = "NATS2Queue" -> NATS2Queue_Start(w, failAt)
      [] k = "Queue2NATS" -> Queue2NATS_Start(w, failAt)
      [] k = "Queue2STAN" -> Queue2STAN_Start(w, failAt)

ConnectorShutdown(k, w, o) ==
    CASE k = "NATS2Queue" -> NATS2Queue_Shutdown(w, o)
      [] k = "Queue2NATS" -> Queue2NATS_Shutdown(w, o)
      [] k = "Queue2STAN" -> Queue2STAN_Shutdown(w, o)

\* The handler each variant registers: with Subscribe, or with setUpListener
ConnectorHandler(k, w, in) ==
    CASE k = "NATS2Queue" -> NATS2Queue_messageHandler(w, in)
      [] k = "Queue2NATS" -> natsMessageHandler(w, in)
      [] k = "Queue2STAN" -> Queue2STAN_messageHandler(w, in)

\* The sources that can invoke the connector's handler now: an active NATS
\* subscription, or a started MQ connection with a callback registered on one of
\* its open objects.  A source invokes its handler one message at a time.
Sources(k) ==
    IF k = "NATS2Queue" THEN subs
    ELSE {h \in mqi.started : \E o \in mqi.objs : o[2] = h /\ o[1] \in mqi.cbs}

\* ------------------------------------------------------------------ state machine

NoCall ==
    [op |-> "none", ret |-> "none", log |-> <<>>, failAt |-> "-", mqErr |-> "-", src |-> 0]

NewObs ==
    [calls |-> 0, msgs |-> 0, started |-> FALSE, restart |-> FALSE,
     sdSeq |-> <<>>, sdCloses |-> 0, pending |-> <<>>, relFailed |-> FALSE]

NewBridge ==
    [running |-> FALSE, lock |-> "free", nats |-> "none", closedCB |-> "idle",
     spawned |-> 0, dispatched |-> 0, errors |-> 0, stopsDone |-> 0]

\* No snapshot taken, no quantile read
NoQuant ==
    [ops |-> 0, trims |-> 0, read |-> FALSE, at |-> <<>>,
     op |-> "none", self |-> FALSE,
     other |-> NewHistogram(1), otherAfter |-> NewHistogram(1)]

\* No statistics taken, an empty queue, no message built
LibInit ==
    /\ quant = NoQuant
    /\ snap = [taken |-> FALSE, stats |-> NewConnectorStats, seen |-> NewHistogram(StatsBins)]
    /\ mqq = [queue |-> <<>>, uow |-> <<>>, received |-> <<>>, backed |-> {},
              puts |-> 0, failures |-> 0, pub |-> "none"]
    /\ codec = [op |-> "none"]

Init ==
    /\ kind \in Kinds
    /\ excludeHeaders \in BOOLEAN
    /\ mq = NewConnector
    /\ mqi = NewMQI
    /\ subs = {}
    /\ out = NewOut
    /\ inflight = {}
    /\ lock = "free"
    /\ crashed = FALSE
    /\ last = NoCall
    /\ obs = NewObs
    /\ bridge = NewBridge
    /\ histogram = NewHistogram(StatsBins)
    /\ LibInit

\* The connector holds no queue, queue-manager or subscription handle.
ConnectorStopped ==
    mq.queue = 0 /\ mq.qMgr = 0 /\ mq.sub = 0

Commit(w) ==
    /\ mq' = w.mq
    /\ mqi' = w.mqi
    /\ subs' = w.subs
    /\ out' = w.out
    /\ inflight' = w.inflight
    /\ lock' = w.lock
    /\ crashed' = w.crashed
    /\ histogram' = w.histogram

\* A caller calls Start.
Start ==
    /\ ~crashed
    /\ lock = "free"
    /\ obs.calls < MaxCalls
    \* the step of Start that fails, if one does
    /\ \E f \in {"none", "output", "connect", "open"}
                  \cup (IF kind = "NATS2Queue" THEN {"sub"} ELSE {"cb", "ctl"}) :
          LET w == ConnectorStart(kind, World, f)
          IN  /\ Commit(w)
              /\ last' = [NoCall EXCEPT !.op = "Start", !.ret = w.ret, !.log = w.log,
                                        !.failAt = f]
              /\ obs' = [obs EXCEPT !.calls = @ + 1, !.started = (w.ret = "nil"),
                                    !.restart = (obs.started /\ obs.sdSeq = <<>>),
                                    !.sdSeq = <<>>, !.sdCloses = 0]
    /\ UNCHANGED <<kind, excludeHeaders, bridge>>
    /\ UNCHANGED libVars

\* A caller calls Shutdown.
Shutdown ==
    /\ ~crashed
    /\ lock = "free"
    /\ obs.calls < MaxCalls
    /\ \E o \in ShutdownOutcomes :
          LET w == ConnectorShutdown(kind, World, o)
          IN  /\ Commit(w)
              /\ last' = [NoCall EXCEPT !.op = "Shutdown", !.ret = w.ret, !.log = w.log]
              /\ obs' = [obs EXCEPT !.calls = @ + 1,
                                    !.sdSeq = Append(@, w.ret),
                                    !.sdCloses = @ + Calls(w.log, "Close"),
                                    \* a Close or Disc call returned an error
                                    !.relFailed =
                                        @ \/ \E i \in 1 .. Len(w.log) :
                                                /\ w.log[i].op \in {"Close", "Disc"}
                                                /\ ~w.log[i].ok]
    /\ UNCHANGED <<kind, excludeHeaders, bridge>>
    /\ UNCHANGED libVars

\* The input library invokes the handler: the invocation starts by waiting for
\* the connector mutex.
Deliver ==
    /\ ~crashed
    /\ obs.msgs < MaxMsgs
    /\ \E src \in Sources(kind) \ inflight :
          /\ inflight' = inflight \cup {src}
          /\ obs' = [obs EXCEPT !.msgs = @ + 1, !.pending = Append(@, src)]
    /\ UNCHANGED <<kind, excludeHeaders, mq, mqi, subs, out, lock, crashed, last, bridge, histogram>>
    /\ UNCHANGED libVars

\* An invoked handler gets the mutex and runs to its return.
Handle ==
    /\ ~crashed
    /\ lock = "free"
    \* the handler is given the MQ completion ("nil": no error, "nomsg":
    \* MQRC_NO_MSG_AVAILABLE, "fatal": any other failed completion; a NATS message
    \* carries none), the payload length, and whether the conversion and the forward
    \* to the output side succeed
    /\ \E src \in inflight,
          in \in [mqErr : IF kind = "NATS2Queue" THEN {"nil"} ELSE {"nil", "nomsg", "fatal"},
                  len : {PayloadLen}, conv : BOOLEAN, pub : BOOLEAN, time : {RequestTime}] :
          \E w \in {ConnectorHandler(kind, [World EXCEPT !.inflight = @ \ {src}], in)} :
              /\ Commit(w)
              /\ last' = [NoCall EXCEPT !.op = "messageHandler", !.ret = w.ret,
                                        !.mqErr = in.mqErr, !.src = src]
              /\ obs' = [obs EXCEPT !.pending = SelectSeq(@, LAMBDA x : x # src)]
    /\ UNCHANGED <<kind, excludeHeaders, bridge>>
    /\ UNCHANGED libVars

Next ==
    \/ Start
    \/ Shutdown
    \/ Deliver
    \/ Handle

Spec == Init /\ [][Next]_vars

\* ------------------------------------------------------------------ the bridge supervisor

\* The state after BridgeServer.Start: NATS connected, the connector started, running set.
BridgeInit ==
    /\ kind \in Kinds
    /\ excludeHeaders \in BOOLEAN
    /\ LET w == ConnectorStart(kind,
                    [mq |-> NewConnector, mqi |-> NewMQI, subs |-> {}, out |-> NewOut,
                     inflight |-> {}, lock |-> "free", crashed |-> FALSE,
                     excl |-> excludeHeaders,
                     histogram |-> NewHistogram(StatsBins),
                     log |-> <<>>, ret |-> "none"], "none")
       IN  /\ mq = w.mq
           /\ mqi = w.mqi
           /\ subs = w.subs
    /\ out = NewOut
    /\ inflight = {}
    /\ lock = "free"
    /\ crashed = FALSE
    /\ last = NoCall
    /\ obs = [NewObs EXCEPT !.started = TRUE]
    /\ bridge = [NewBridge EXCEPT !.running = TRUE, !.nats = "connected"]
    /\ histogram = NewHistogram(StatsBins)
    /\ LibInit

\* nc.Close(), or the connection lost for good: the client calls the closed handler, once
CloseNATS(b) ==
    IF b.nats = "connected"
    THEN [b EXCEPT !.nats = "closed", !.closedCB = "fired"]
    ELSE b

\* The NATS connection is lost for good.
NATSClosed ==
    /\ ~crashed
    /\ bridge.nats = "connected"
    /\ bridge' = CloseNATS(bridge)
    /\ UNCHANGED connVars
    /\ UNCHANGED libVars

\* ClosedHandler, line 305: bridge.running is read without the lock
ClosedHandlerCheck ==
    /\ ~crashed
    /\ bridge.closedCB = "fired"
    /\ bridge' = [bridge EXCEPT !.closedCB = IF bridge.running THEN "dispatch" ELSE "done"]
    /\ UNCHANGED connVars
    /\ UNCHANGED libVars

\* ClosedHandler, lines 307-309: bridge.Lock(); go bridge.Stop(); bridge.Unlock()
ClosedHandlerDispatch ==
    /\ ~crashed
    /\ bridge.closedCB = "dispatch"
    /\ bridge.lock = "free"
    /\ bridge' = [bridge EXCEPT !.closedCB = "done", !.spawned = @ + 1, !.dispatched = @ + 1]
    /\ UNCHANGED connVars
    /\ UNCHANGED libVars

\* The task started by "go mq.bridge.ConnectorError(mq, err)": a callback error
\* is fatal, the supervisor is stopped.
ConnectorError ==
    /\ ~crashed
    /\ bridge.errors < out.connErrs
    /\ bridge' = [bridge EXCEPT !.errors = @ + 1, !.spawned = @ + 1]
    /\ UNCHANGED connVars
    /\ UNCHANGED libVars

\* BridgeServer.Stop, on its own task: under the bridge lock, clear running, shut the
\* connector down, close the NATS connection.  A Shutdown that blocks leaves Stop
\* blocked with the bridge lock held.
Stop ==
    /\ ~crashed
    /\ bridge.spawned > 0
    /\ bridge.lock = "free"
    /\ \E o \in ShutdownOutcomes :
          LET w == ConnectorShutdown(kind, World, o)
              b == [bridge EXCEPT !.spawned = @ - 1, !.running = FALSE]
          IN  /\ Commit(w)
              /\ last' = [NoCall EXCEPT !.op = "Shutdown", !.ret = w.ret, !.log = w.log]
              /\ obs' = [obs EXCEPT !.sdSeq = Append(@, w.ret),
                                    !.sdCloses = @ + Calls(w.log, "Close")]
              /\ bridge' = CASE w.ret = "blocked" -> [b EXCEPT !.lock = "Stop"]
                             [] w.ret = "panic" -> b
                             [] OTHER -> [CloseNATS(b) EXCEPT !.stopsDone = @ + 1]
    /\ UNCHANGED <<kind, excludeHeaders>>
    /\ UNCHANGED libVars

BridgeNext ==
    \/ Deliver
    \/ Handle
    \/ NATSClosed
    \/ ClosedHandlerCheck
    \/ ClosedHandlerDispatch
    \/ ConnectorError
    \/ Stop

\* The tasks of the program are scheduled fairly; the loss of the NATS connection
\* and the arrival of messages are up to the environment.
FairBridgeSpec ==
    /\ BridgeInit /\ [][BridgeNext]_vars
    /\ WF_vars(Handle)
    /\ WF_vars(ClosedHandlerCheck)
    /\ WF_vars(ClosedHandlerDispatch)
    /\ WF_vars(ConnectorError)
    /\ WF_vars(Stop)

\* ------------------------------------------------------------------ the queue read under syncpoint

MaxPuts == 3

MaxFailures == 2

\* A started Queue2STAN connector on an empty queue.
RedeliveryInit ==
    /\ kind = "Queue2STAN"
    /\ excludeHeaders \in BOOLEAN
    /\ LET w == ConnectorStart(kind,
                    [mq |-> NewConnector, mqi |-> NewMQI, subs |-> {}, out |-> NewOut,
                     inflight |-> {}, lock |-> "free", crashed |-> FALSE,
                     excl |-> excludeHeaders,
                     histogram |-> NewHistogram(StatsBins),
                     log |-> <<>>, ret |-> "none"], "none")
       IN  /\ mq = w.mq
           /\ mqi = w.mqi
           /\ subs = w.subs
    /\ out = NewOut
    /\ inflight = {}
    /\ lock = "free"
    /\ crashed = FALSE
    /\ last = NoCall
    /\ obs = [NewObs EXCEPT !.started = TRUE]
    /\ bridge = NewBridge
    /\ histogram = NewHistogram(StatsBins)
    /\ LibInit

\* An application puts a message on the queue.
PutMessage ==
    /\ mqq.puts < MaxPuts
    /\ mqq' = [mqq EXCEPT !.puts = @ + 1, !.queue = Append(@, mqq.puts + 1)]
    /\ UNCHANGED connVars
    /\ UNCHANGED <<bridge, quant, snap, codec>>

\* The dispatcher gets the first message of the queue under syncpoint
\* (MQGMO_SYNCPOINT, line 200) and invokes the callback with it.
GetMessage ==
    /\ ~crashed
    /\ inflight = {}
    /\ mqq.queue # <<>>
    /\ mq.qMgr \in Sources(kind)
    /\ inflight' = {mq.qMgr}
    /\ mqq' = [mqq EXCEPT !.queue = Tail(@), !.uow = Append(@, Head(mqq.queue))]
    /\ UNCHANGED <<kind, excludeHeaders, mq, mqi, subs, out, lock, crashed, last, obs, histogram>>
    /\ UNCHANGED <<bridge, quant, snap, codec>>

\* The handler, lines 227-259: it takes the connector mutex and publishes the message
\* it was invoked with.  A publish that succeeds reaches the subscriber; the publish
\* fails while STAN is unavailable, which it is MaxFailures times at most.  The
\* message is still in the open unit of work.
Publish ==
    /\ ~crashed
    /\ lock = "free"
    /\ inflight # {}
    /\ mqq.pub = "none"
    /\ \E pubOk \in {TRUE} \cup (IF mqq.failures < MaxFailures THEN {FALSE} ELSE {}) :
          mqq' = [mqq EXCEPT !.pub = IF pubOk THEN "ok" ELSE "failed",
                             !.received = IF pubOk THEN Append(@, mqq.uow[Len(mqq.uow)])
                                          ELSE @,
                             !.failures = IF pubOk THEN @ ELSE @ + 1]
    /\ lock' = "messageHandler"
    /\ UNCHANGED <<kind, excludeHeaders, mq, mqi, subs, out, inflight, crashed, last, obs,
                   histogram>>
    /\ UNCHANGED <<bridge, quant, snap, codec>>

\* The handler, lines 260-269: Back or Cmit after the publish, the statistics, and
\* the mutex released.  What the handler did to the connector shows when it returns.
Consume ==
    /\ ~crashed
    /\ lock = "messageHandler"
    /\ mqq.pub # "none"
    /\ \E w \in {Queue2STAN_messageHandler(
                        [World EXCEPT !.inflight = {}, !.lock = "free"],
                        [mqErr |-> "nil", len |-> PayloadLen, conv |-> TRUE,
                         pub |-> (mqq.pub = "ok"), time |-> RequestTime])} :
           /\ Commit(w)
           /\ last' = [NoCall EXCEPT !.op = "messageHandler", !.ret = w.ret,
                                     !.mqErr = "nil", !.src = mq.qMgr]
           \* Cmit ends the unit of work, its messages gone from the queue; Back ends
           \* it with its messages back at the front of the queue
           /\ mqq' = CASE Len(w.out.tx) > Len(out.tx) /\ w.out.tx[Len(w.out.tx)] = "Cmit" ->
                            [mqq EXCEPT !.pub = "none", !.uow = <<>>]
                        [] Len(w.out.tx) > Len(out.tx) /\ w.out.tx[Len(w.out.tx)] = "Back" ->
                            [mqq EXCEPT !.pub = "none", !.uow = <<>>,
                                        !.queue = mqq.uow \o @,
                                        !.backed = @ \cup {mqq.uow[i] : i \in 1 .. Len(mqq.uow)}]
                        [] OTHER -> [mqq EXCEPT !.pub = "none"]
    /\ UNCHANGED <<kind, excludeHeaders, obs>>
    /\ UNCHANGED <<bridge, quant, snap, codec>>

RedeliveryNext ==
    \/ PutMessage
    \/ GetMessage
    \/ Publish
    \/ Consume

RedeliverySpec == RedeliveryInit /\ [][RedeliveryNext]_vars

\* The dispatcher and the handler are scheduled fairly; putting messages is up
\* to the applications.
FairRedeliverySpec ==
    /\ RedeliverySpec
    /\ WF_vars(GetMessage)
    /\ WF_vars(Publish)
    /\ WF_vars(Consume)

\* ------------------------------------------------------------------ the statistics record read by Stats()

\* The request times recorded, and the samples added to a histogram
Samples ==
    {Float(v, 1) : v \in 1 .. MaxValue}

\* Stats(): the statistics record is returned by value, "return mq.stats"; the
\* copy holds what the record holds, the address of the histogram included
Stats(w) ==
    w.mq.stats

\* The histogram at an address
Deref(ref) ==
    IF ref = HistogramRef THEN histogram ELSE NewHistogram(0)

\* A caller calls Stats(), which takes the connector mutex, and keeps what it returns.
TakeStats ==
    /\ ~crashed
    /\ lock = "free"
    /\ ~snap.taken
    /\ snap' = [taken |-> TRUE, stats |-> Stats(World),
                seen |-> Deref(Stats(World).histogram)]
    /\ UNCHANGED connVars
    /\ UNCHANGED <<bridge, quant, mqq, codec>>

\* The connector running, its statistics read once by a caller
StatsNext ==
    \/ Start
    \/ Shutdown
    \/ Deliver
    \/ Handle
    \/ TakeStats

StatsSpec == Init /\ [][StatsNext]_vars

\* ------------------------------------------------------------------ the histogram on its own

\* The quantiles read, ascending
Quantiles ==
    << <<0, 1>>, <<1, 4>>, <<1, 2>>, <<3, 4>>, <<1, 1>> >>

HistInit ==
    /\ kind = "NATS2Queue"
    /\ excludeHeaders = FALSE
    /\ mq = NewConnector
    /\ mqi = NewMQI
    /\ subs = {}
    /\ out = NewOut
    /\ inflight = {}
    /\ lock = "free"
    /\ crashed = FALSE
    /\ last = NoCall
    /\ obs = NewObs
    /\ bridge = NewBridge
    /\ \E n \in 0 .. MaxBinsBound : histogram = NewHistogram(n)
    /\ LibInit

\* The operation op took the histogram from before to after, through the state
\* untrimmed it had before its trim; a panic of the operation ends the process.
\* arg is what a MergeWith was called with: whether its argument is the receiver
\* itself, and the histogram the argument referred to before and after the call
Operated(op, untrimmed, after, arg) ==
    /\ ~crashed
    /\ histogram' = [Bins |-> after.Bins, MaxBins |-> after.MaxBins, Total |-> after.Total]
    /\ crashed' = ("panic" \in DOMAIN after)
    /\ quant' = [NoQuant EXCEPT
                    !.op = op, !.self = arg.self,
                    !.other = arg.other, !.otherAfter = arg.otherAfter,
                    !.ops = quant.ops + 1,
                    !.trims = quant.trims
                              + (IF Len(untrimmed.Bins) > untrimmed.MaxBins THEN 1 ELSE 0)]
    /\ UNCHANGED <<kind, excludeHeaders, mq, mqi, subs, out, inflight, lock, last, obs>>
    /\ UNCHANGED <<bridge, snap, mqq, codec>>

Add ==
    /\ quant.ops < MaxOps
    /\ \E n \in Samples :
          Operated("Add", Histogram_insert(histogram, n), Histogram_Add(histogram, n),
                   NoQuant)

\* The other histograms merged in: empty, of one sample, of two bins
Others ==
    {NewHistogram(1)}
        \cup {Histogram_Add(NewHistogram(1), v) : v \in Samples}
        \cup {Histogram_Add(Histogram_Add(NewHistogram(2), Float(1, 1)), Float(MaxValue, 1))}

\* h.MergeWith(other): the receiver is at pointer 1; other is the receiver itself
\* (pointer 1) or another histogram (pointer 2). The array of each slice has the
\* capacity its appends left it, spare elements after the bins
MergeWith ==
    /\ quant.ops < MaxOps
    /\ \E self \in BOOLEAN, spare \in {0, MaxSpare} :
          \E o \in IF self THEN {histogram} ELSE Others :
             \E mem \in {[hist |-> [r \in 1 .. 2 |->
                                      LET hh == IF r = 1 THEN histogram ELSE o
                                      IN  [Bins    |-> [arr |-> r, len |-> Len(hh.Bins)],
                                           MaxBins |-> hh.MaxBins,
                                           Total   |-> hh.Total]],
                           arr |-> [r \in 1 .. 2 |->
                                      (IF r = 1 THEN histogram ELSE o).Bins
                                          \o [i \in 1 .. spare |->
                                                [Value |-> Float(0, 1), Count |-> 0]]],
                           panic |-> FALSE]} :
                \E other \in {IF self THEN 1 ELSE 2} :
                   \E done \in {Histogram_MergeWith(mem, 1, other)} :
                      Operated("MergeWith",
                               HistogramAt(Histogram_append(mem, 1, other), 1),
                               IF done.panic
                               THEN [Bins    |-> HistogramAt(done, 1).Bins,
                                     MaxBins |-> HistogramAt(done, 1).MaxBins,
                                     Total   |-> HistogramAt(done, 1).Total,
                                     panic   |-> TRUE]
                               ELSE HistogramAt(done, 1),
                               [self       |-> self,
                                other      |-> HistogramAt(mem, other),
                                otherAfter |-> HistogramAt(done, other)])

Scale ==
    /\ quant.ops < MaxOps
    /\ \E s \in {Float(-1, 1), Float(1, 2)} :
          Operated("Scale", histogram, Histogram_Scale(histogram, s), NoQuant)

Quantile ==
    /\ ~crashed
    /\ ~quant.read
    /\ quant' = [quant EXCEPT
                    !.read = TRUE,
                    !.at = [i \in 1 .. Len(Quantiles) |->
                              Histogram_Quantile(histogram,
                                                 Float(Quantiles[i][1], Quantiles[i][2]))]]
    /\ UNCHANGED connVars
    /\ UNCHANGED <<bridge, snap, mqq, codec>>

HistNext ==
    \/ Add
    \/ MergeWith
    \/ Scale
    \/ Quantile

HistSpec == HistInit /\ [][HistNext]_vars

\* ------------------------------------------------------------------ the bridge message and its codec

\* A string or a []byte is the sequence of its bytes.
HelloWorld == <<104, 101, 108, 108, 111, 32, 119, 111, 114, 108, 100>>
Alpha == <<97, 108, 112, 104, 97>>

\* The fields of BridgeHeader, which mirror MQMD, in the order they are written:
\* "int" is an MQLONG, "str" a character field, "id" a byte-array identifier.
HeaderFields ==
    << <<"Version", "int">>, <<"Report", "int">>, <<"MsgType", "int">>,
       <<"Expiry", "int">>, <<"Feedback", "int">>, <<"Encoding", "int">>,
       <<"CodedCharSetId", "int">>, <<"Format", "str">>, <<"Priority", "int">>,
       <<"Persistence", "int">>, <<"MsgId", "id">>, <<"CorrelId", "id">>,
       <<"BackoutCount", "int">>, <<"ReplyToQ", "str">>, <<"ReplyToQMgr", "str">>,
       <<"UserIdentifier", "str">>, <<"AccountingToken", "id">>,
       <<"ApplIdentityData", "str">>, <<"PutApplType", "int">>,
       <<"PutApplName", "str">>, <<"PutDate", "str">>, <<"PutTime", "str">>,
       <<"ApplOriginData", "str">>, <<"GroupId", "id">>, <<"MsgSeqNumber", "int">>,
       <<"Offset", "int">>, <<"MsgFlags", "int">>, <<"OriginalLength", "int">> >>

FieldNames == {HeaderFields[i][1] : i \in 1 .. Len(HeaderFields)}

\* BridgeHeader{}: every field at its zero value
BridgeHeader ==
    [Version |-> 0, Report |-> 0, MsgType |-> 0, Expiry |-> 0, Feedback |-> 0,
     Encoding |-> 0, CodedCharSetId |-> 0, Format |-> <<>>, Priority |-> 0,
     Persistence |-> 0, MsgId |-> <<>>, CorrelId |-> <<>>, BackoutCount |-> 0,
     ReplyToQ |-> <<>>, ReplyToQMgr |-> <<>>, UserIdentifier |-> <<>>,
     AccountingToken |-> <<>>, ApplIdentityData |-> <<>>, PutApplType |-> 0,
     PutApplName |-> <<>>, PutDate |-> <<>>, PutTime |-> <<>>,
     ApplOriginData |-> <<>>, GroupId |-> <<>>, MsgSeqNumber |-> 0, Offset |-> 0,
     MsgFlags |-> 0, OriginalLength |-> 0]

\* The ten types a property value has, in the order of their type tags
PropertyTypes ==
    <<"null", "bool", "int8", "int16", "int32", "int64", "float32", "float64",
      "string", "bytes">>

SupportedTypes == {PropertyTypes[i] : i \in 1 .. Len(PropertyTypes)}

NoProperties == [k \in {} |-> [type |-> "null", val |-> 0]]

\* NewBridgeMessage(body)
NewBridgeMessage(body) ==
    [Header |-> BridgeHeader, Properties |-> NoProperties, Body |-> body]

\* An int64, and a Go int, is held in three parts <<hi, mid, lo>>, the number
\* hi * 2^32 + mid * 2^16 + lo with mid and lo in 0 .. 65535 (the model checker's
\* integers have 32 bits); a narrower integer is held as a number.

\* The typed value a Go value is stored as: a native int becomes an int64
Typed(v) ==
    IF v.type = "int" THEN [type |-> "int64", val |-> v.val] ELSE v

\* SetProperty storing a value of any type
SetProperty_AcceptsAll(msg, key, v) ==
    [msg |-> [msg EXCEPT !.Properties =
                 [k \in DOMAIN @ \cup {key} |-> IF k = key THEN Typed(v) ELSE @[k]]],
     err |-> FALSE]

\* msg.SetProperty(key, value): fails on a value of an unsupported type and leaves
\* the message as it is; a key already set is replaced.
SetProperty(msg, key, v) ==
    IF Typed(v).type \notin SupportedTypes
    THEN [msg |-> msg, err |-> TRUE]
    ELSE [msg |-> [msg EXCEPT !.Properties =
                      [k \in DOMAIN @ \cup {key} |-> IF k = key THEN Typed(v) ELSE @[k]]],
          err |-> FALSE]

\* msg.HasProperty(key)
HasProperty(msg, key) ==
    key \in DOMAIN msg.Properties

\* msg.GetTypedProperty(key): the value and true, or nil and false
GetTypedProperty(msg, key) ==
    IF key \in DOMAIN msg.Properties
    THEN [ok |-> TRUE, value |-> msg.Properties[key]]
    ELSE [ok |-> FALSE, value |-> [type |-> "null", val |-> 0]]

\* DeleteProperty returning the value and leaving the key in place
DeleteProperty_KeepsKey(msg, key) ==
    [msg |-> msg, old |-> GetTypedProperty(msg, key).value]

\* msg.DeleteProperty(key): the key is removed; returns the value it had, nil if it
\* had none
DeleteProperty(msg, key) ==
    [msg |-> [msg EXCEPT !.Properties = [k \in DOMAIN @ \ {key} |-> @[k]]],
     old |-> GetTypedProperty(msg, key).value]

\* ---- encode

\* n in w bytes, big-endian, two's complement, for w up to 4
BE(n, w) ==
    [i \in 1 .. w |-> (n \div (256 ^ (w - i))) % 256]

\* The number of bytes of a fixed-width value
Width(type) ==
    CASE type = "bool" -> 1
      [] type = "int8" -> 1
      [] type = "int16" -> 2
      [] type = "int32" -> 4
      [] type = "int64" -> 8
      [] type = "float32" -> 4
      [] type = "float64" -> 8
      [] OTHER -> 0

TagOf(type) == CHOOSE i \in 1 .. Len(PropertyTypes) : PropertyTypes[i] = type

LengthBytes == 4
KeyLengthBytes == 2
LongBytes == 4

\* A section or a string: its length, then its bytes
Prefixed(x) == BE(Len(x), LengthBytes) \o x

\* The value of a property: fixed-width for numbers and bool, length-prefixed for
\* string and bytes, absent for null. A float is held as its IEEE-754 bytes.
Encode_value(v) ==
    CASE v.type = "null" -> <<>>
      [] v.type = "bool" -> <<IF v.val THEN 1 ELSE 0>>
      [] v.type \in {"int8", "int16", "int32"} -> BE(v.val, Width(v.type))
      [] v.type = "int64" -> BE(v.val[1], 4) \o BE(v.val[2], 2) \o BE(v.val[3], 2)
      [] v.type \in {"float32", "float64"} -> v.val
      [] OTHER -> Prefixed(v.val)

\* An encoder that writes every integer as the widest one, int64(n)
Encode_property_WidestInt(key, v) ==
    BE(Len(key), KeyLengthBytes) \o key
      \o (IF v.type \in {"int8", "int16", "int32"}
          THEN <<TagOf("int64")>>
                 \o Encode_value([type |-> "int64",
                                  val |-> <<IF v.val < 0 THEN -1 ELSE 0,
                                            (v.val \div 65536) % 65536,
                                            v.val % 65536>>])
          ELSE <<TagOf(v.type)>> \o Encode_value(v))

\* key-length | key-bytes | type-tag | value
Encode_property(key, v) ==
    BE(Len(key), KeyLengthBytes) \o key \o <<TagOf(v.type)>> \o Encode_value(v)

RECURSIVE Encode_properties(_, _)
Encode_properties(props, order) ==
    IF order = <<>> THEN <<>>
    ELSE Encode_property(Head(order), props[Head(order)])
           \o Encode_properties(props, Tail(order))

RECURSIVE Encode_header(_, _)
Encode_header(h, i) ==
    IF i > Len(HeaderFields) THEN <<>>
    ELSE (IF HeaderFields[i][2] = "int"
          THEN BE(h[HeaderFields[i][1]], LongBytes)
          ELSE Prefixed(h[HeaderFields[i][1]]))
           \o Encode_header(h, i + 1)

\* The orders a map of properties is ranged over
Orders(props) ==
    {o \in [1 .. Cardinality(DOMAIN props) -> DOMAIN props] :
        \A i, j \in DOMAIN o : i # j => o[i] # o[j]}

\* msg.Encode(): header, properties and body, each as a length-prefixed section;
\* the properties in the order the map is ranged over.
Encode(msg, order) ==
    Prefixed(Encode_header(msg.Header, 1))
      \o Prefixed(Encode_properties(msg.Properties, order))
      \o Prefixed(msg.Body)

\* ---- decode

Failed == [ok |-> FALSE]

\* Whether n bytes are left at pos, and those bytes
Has(b, pos, n) == n >= 0 /\ pos + n - 1 <= Len(b)
Take(b, pos, n) == SubSeq(b, pos, pos + n - 1)

\* The unsigned and the signed integer of big-endian bytes
RECURSIVE Shifted(_, _)
Shifted(acc, b) ==
    IF b = <<>> THEN acc ELSE Shifted(acc * 256 + Head(b), Tail(b))

Signed(b) ==
    Shifted(IF Head(b) >= 128 THEN Head(b) - 256 ELSE Head(b), Tail(b))

\* A length, then that many bytes: the bytes and the position after them
Decode_prefixed(b, pos) ==
    IF ~Has(b, pos, LengthBytes) THEN Failed
    ELSE LET n == Shifted(0, Take(b, pos, LengthBytes))
         IN  IF ~Has(b, pos + LengthBytes, n) THEN Failed
             ELSE [ok |-> TRUE, val |-> Take(b, pos + LengthBytes, n),
                   next |-> pos + LengthBytes + n]

\* The value of a property of the type the tag names
Decode_value(b, pos, type) ==
    CASE type = "null" -> [ok |-> TRUE, val |-> [type |-> type, val |-> 0], next |-> pos]
      [] type \in {"string", "bytes"} ->
            LET r == Decode_prefixed(b, pos)
            IN  IF ~r.ok THEN Failed
                ELSE [ok |-> TRUE, val |-> [type |-> type, val |-> r.val], next |-> r.next]
      [] OTHER ->
            IF ~Has(b, pos, Width(type)) THEN Failed
            ELSE LET raw == Take(b, pos, Width(type))
                 IN  [ok |-> TRUE,
                      val |-> [type |-> type,
                               val |-> CASE type = "bool" -> raw[1] # 0
                                         [] type \in {"float32", "float64"} -> raw
                                         [] type = "int64" ->
                                               <<Signed(Take(raw, 1, 4)),
                                                 Shifted(0, Take(raw, 5, 2)),
                                                 Shifted(0, Take(raw, 7, 2))>>
                                         [] OTHER -> Signed(raw)],
                      next |-> pos + Width(type)]

\* The properties of a section: fails on a key of length zero, a key met twice, an
\* unknown type tag and a property cut short.
RECURSIVE Decode_properties(_, _, _)
Decode_properties(b, pos, props) ==
    IF pos > Len(b) THEN [ok |-> TRUE, val |-> props]
    ELSE IF ~Has(b, pos, KeyLengthBytes) THEN Failed
    ELSE LET n == Shifted(0, Take(b, pos, KeyLengthBytes))
             at == pos + KeyLengthBytes
         IN  IF n = 0 \/ ~Has(b, at, n + 1) THEN Failed
             ELSE LET key == Take(b, at, n)
                      tag == b[at + n]
                  IN  IF key \in DOMAIN props \/ tag \notin 1 .. Len(PropertyTypes)
                      THEN Failed
                      ELSE LET v == Decode_value(b, at + n + 1, PropertyTypes[tag])
                           IN  IF ~v.ok THEN Failed
                               ELSE Decode_properties(b, v.next,
                                       [k \in DOMAIN props \cup {key} |->
                                           IF k = key THEN v.val ELSE props[k]])

\* The fields of a header section, in the order Encode writes them
RECURSIVE Decode_header(_, _, _, _)
Decode_header(b, pos, i, h) ==
    IF i > Len(HeaderFields) THEN [ok |-> pos = Len(b) + 1, val |-> h]
    ELSE IF HeaderFields[i][2] = "int"
    THEN IF ~Has(b, pos, LongBytes) THEN Failed
         ELSE Decode_header(b, pos + LongBytes, i + 1,
                 [h EXCEPT ![HeaderFields[i][1]] = Signed(Take(b, pos, LongBytes))])
    ELSE LET r == Decode_prefixed(b, pos)
         IN  IF ~r.ok THEN Failed
             ELSE Decode_header(b, r.next, i + 1, [h EXCEPT ![HeaderFields[i][1]] = r.val])

\* DecodeBridgeMessage(bytes): the three sections, or an error
DecodeBridgeMessage(b) ==
    LET hs == Decode_prefixed(b, 1)
    IN  IF ~hs.ok THEN Failed
        ELSE LET ps == Decode_prefixed(b, hs.next)
             IN  IF ~ps.ok THEN Failed
                 ELSE LET bs == Decode_prefixed(b, ps.next)
                          h == Decode_header(hs.val, 1, 1, BridgeHeader)
                          p == Decode_properties(ps.val, 1, NoProperties)
                      IN  IF ~bs.ok \/ ~h.ok \/ ~p.ok THEN Failed
                          ELSE [ok |-> TRUE,
                                msg |-> [Header |-> h.val, Properties |-> p.val,
                                         Body |-> bs.val]]

\* ------------------------------------------------------------------ conversion between MQ and the envelope

\* The length of an MQ identifier
IdLength == 24

\* ibmmq.NewMQMD(): the descriptor with MQ's defaults
NewMQMD ==
    [Version |-> 1, Report |-> 0, MsgType |-> 8, Expiry |-> -1, Feedback |-> 0,
     Encoding |-> 546, CodedCharSetId |-> 0, Format |-> <<>>, Priority |-> -1,
     Persistence |-> 2, MsgId |-> [i \in 1 .. IdLength |-> 0], CorrelId |-> [i \in 1 .. IdLength |-> 0],
     BackoutCount |-> 0, ReplyToQ |-> <<>>, ReplyToQMgr |-> <<>>,
     UserIdentifier |-> <<>>, AccountingToken |-> [i \in 1 .. IdLength |-> 0],
     ApplIdentityData |-> <<>>, PutApplType |-> 0, PutApplName |-> <<>>,
     PutDate |-> <<>>, PutTime |-> <<>>, ApplOriginData |-> <<>>,
     GroupId |-> [i \in 1 .. IdLength |-> 0], MsgSeqNumber |-> 1, Offset |-> 0, MsgFlags |-> 0,
     OriginalLength |-> -1]

\* copyByteArray: a copy of the bytes, of the same length
copyByteArray(b) == [i \in 1 .. Len(b) |-> b[i]]

\* qMgr.CrtMH: a message handle with no property
EmptyHandle == NoProperties

\* handle.SetMP(smpo, name, pd, value): the property is stored with the MQ type of
\* the Go value, a Go int as a 64-bit integer.
SetMP(handle, name, v) ==
    IF v.type \notin SupportedTypes \cup {"int"}
    THEN [handle |-> handle, err |-> TRUE]
    ELSE [handle |-> [k \in DOMAIN handle \cup {name} |->
                         IF k # name THEN handle[k]
                         ELSE IF v.type = "int" THEN [type |-> "int64", val |-> v.val]
                         ELSE v],
          err |-> FALSE]

\* handle.InqMP(impo, pd, name) with MQIMPO_CONVERT_VALUE: the value in its Go
\* type, nil for a null property; fails if the handle has no such property.
InqMP(handle, name) ==
    IF name \in DOMAIN handle THEN [ok |-> TRUE, value |-> handle[name]] ELSE Failed

\* The properties of a handle, inquired one after the other and set on the message
RECURSIVE copyProperties(_, _, _)
copyProperties(msg, handle, order) ==
    IF order = <<>> THEN msg
    ELSE copyProperties(SetProperty(msg, Head(order), InqMP(handle, Head(order)).value).msg,
                        handle, Tail(order))

\* The bridge message mqToNATSMessage encodes: every field of the descriptor, the
\* identifiers as copies, every property of the handle, and the payload.
mqToBridgeMessage(mqmd, handle, data, length, order) ==
    copyProperties(
        [NewBridgeMessage(Take(data, 1, length)) EXCEPT
            !.Header = [f \in FieldNames |->
                           IF f \in {"MsgId", "CorrelId", "AccountingToken", "GroupId"}
                           THEN copyByteArray(mqmd[f]) ELSE mqmd[f]]],
        handle, order)

\* mqToNATSMessage encoding an envelope whether or not it has a queue manager
mqToNATSMessage_AlwaysEncodes(mqmd, handle, data, length, qMgrNil, order) ==
    Encode(mqToBridgeMessage(mqmd, handle, data, length, order), order)

\* bridge.mqToNATSMessage(mqmd, handle, data, length, qMgr): the payload as it is
\* without a queue manager, otherwise the encoded envelope.
mqToNATSMessage(mqmd, handle, data, length, qMgrNil, order) ==
    IF qMgrNil THEN Take(data, 1, length)
    ELSE Encode(mqToBridgeMessage(mqmd, handle, data, length, order), order)

\* A descriptor made from a header with no field taken from it
headerToMQMD_Defaults(h, replyTo) ==
    [f \in FieldNames |-> NewMQMD[f]]

\* The descriptor made from a decoded header: the copied fields from the header,
\* the others at their defaults; replyTo names the reply queue if the header has none.
headerToMQMD(h, replyTo) ==
    [f \in FieldNames |->
        IF f = "ReplyToQ" /\ h[f] = <<>> /\ replyTo # <<>> THEN replyTo
        ELSE IF f \in {"MsgId", "CorrelId", "AccountingToken", "GroupId"}
        THEN copyByteArray(h[f])
        ELSE IF f \in {"Persistence", "Report", "Feedback", "Encoding", "CodedCharSetId",
                        "Format", "Priority", "ReplyToQ", "ReplyToQMgr", "UserIdentifier",
                        "ApplIdentityData", "PutApplType", "PutApplName", "ApplOriginData",
                        "MsgSeqNumber", "Offset", "MsgFlags", "OriginalLength"}
        THEN h[f]
        ELSE NewMQMD[f]]

\* The properties of a decoded message set on a message handle, in the order the
\* map is ranged over (the handle made does not depend on it)
RECURSIVE attachProperties(_, _, _)
attachProperties(handle, props, todo) ==
    IF todo = {} THEN [handle |-> handle, err |-> FALSE]
    ELSE LET k == CHOOSE x \in todo : TRUE
             r == SetMP(handle, k, props[k])
         IN  IF r.err THEN r ELSE attachProperties(r.handle, props, todo \ {k})

\* bridge.natsToMQMessage(data, replyTo, qMgr): without a queue manager a default
\* descriptor and the data as the payload; otherwise the decoded envelope as a
\* descriptor, a new message handle with its properties, and its body.
natsToMQMessage(data, replyTo, qMgrNil) ==
    IF qMgrNil
    THEN [err |-> FALSE, mqmd |-> NewMQMD, handle |-> EmptyHandle, data |-> data]
    ELSE LET d == DecodeBridgeMessage(data)
         IN  IF ~d.ok
             THEN [err |-> TRUE, mqmd |-> NewMQMD, handle |-> EmptyHandle, data |-> <<>>]
             ELSE LET a == attachProperties(EmptyHandle, d.msg.Properties,
                                                DOMAIN d.msg.Properties)
                  IN  [err |-> a.err, mqmd |-> headerToMQMD(d.msg.Header, replyTo),
                       handle |-> a.handle, data |-> d.msg.Body]

\* ------------------------------------------------------------------ messages encoded, decoded and converted

MaxProps == 2

\* Property names, bodies and Go values given to SetProperty and SetMP: one value
\* of every supported type, the integers of TestMQMDTranslation and the int64 of
\* TestPropertyTypes (int(356), int64(11123123123), int64(222222222222222222) and
\* int64(-2) in three parts), and a value of an unsupported type
Keys == {<<97>>, <<98>>}

Bodies == {<<>>, HelloWorld, <<0, 255>>}

NativeValues ==
    {[type |-> "string", val |-> Alpha], [type |-> "bytes", val |-> Alpha],
     [type |-> "int", val |-> <<0, 0, 356>>], [type |-> "int8", val |-> 17],
     [type |-> "int8", val |-> -1], [type |-> "int16", val |-> 129],
     [type |-> "int16", val |-> 17], [type |-> "int32", val |-> 356],
     [type |-> "int64", val |-> <<2, 38653, 25523>>],
     [type |-> "int64", val |-> <<51740143, 2240, 58254>>],
     [type |-> "int64", val |-> <<-1, 65535, 65534>>],
     [type |-> "float32", val |-> <<64, 64, 0, 0>>],
     [type |-> "float64", val |-> <<65, 19, 170, 184, 0, 0, 0, 0>>],
     [type |-> "bool", val |-> TRUE], [type |-> "bool", val |-> FALSE],
     [type |-> "null", val |-> 0],
     [type |-> "[]string", val |-> <<Alpha, Alpha>>]}

\* The descriptor TestMQMDTranslation converts
TestMQMD ==
    [Version |-> 1, Report |-> 2, MsgType |-> 3, Expiry |-> 4, Feedback |-> 5,
     Encoding |-> 6, CodedCharSetId |-> 7, Format |-> <<56>>, Priority |-> 9,
     Persistence |-> 2, MsgId |-> HelloWorld, CorrelId |-> HelloWorld,
     BackoutCount |-> 11, ReplyToQ |-> <<49, 50>>, ReplyToQMgr |-> <<49, 51>>,
     UserIdentifier |-> <<49, 52>>, AccountingToken |-> HelloWorld,
     ApplIdentityData |-> <<49, 53>>, PutApplType |-> 16, PutApplName |-> <<49, 55>>,
     PutDate |-> <<49, 56>>, PutTime |-> <<49, 57>>, ApplOriginData |-> <<50, 48>>,
     GroupId |-> HelloWorld, MsgSeqNumber |-> 21, Offset |-> 22, MsgFlags |-> 23,
     OriginalLength |-> 24]

\* Descriptors of messages got from a queue: the defaults, the test's, and a
\* persistent message with identifiers the queue manager gave it
MQMDs ==
    {NewMQMD, TestMQMD,
     [NewMQMD EXCEPT !.Persistence = 1, !.MsgId = [i \in 1 .. IdLength |-> i],
                     !.CorrelId = [i \in 1 .. IdLength |-> 255],
                     !.GroupId = [i \in 1 .. IdLength |-> IdLength - i],
                     !.Format = <<77, 81, 83, 84, 82>>, !.PutDate = <<50, 48>>]}

\* nil, as a typed property value
Null == [type |-> "null", val |-> 0]

CodecInit ==
    /\ kind = "Queue2NATS"
    /\ excludeHeaders = FALSE
    /\ mq = NewConnector
    /\ mqi = NewMQI
    /\ subs = {}
    /\ out = NewOut
    /\ inflight = {}
    /\ lock = "free"
    /\ crashed = FALSE
    /\ last = NoCall
    /\ obs = NewObs
    /\ bridge = NewBridge
    /\ histogram = NewHistogram(StatsBins)
    /\ LibInit

\* msg := NewBridgeMessage(body)
NewMessage ==
    /\ codec.op = "none"
    /\ \E body \in Bodies :
          codec' = [op |-> "message", msg |-> NewBridgeMessage(body), sets |-> 0,
                    err |-> FALSE, call |-> [op |-> "none", key |-> <<>>, given |-> Null]]
    /\ UNCHANGED connVars
    /\ UNCHANGED <<bridge, quant, snap, mqq>>

\* msg.Header = BridgeHeader{...}
SetHeader ==
    /\ codec.op = "message"
    /\ codec.msg.Header = BridgeHeader
    /\ \E h \in MQMDs \cup {[BridgeHeader EXCEPT !.Version = 1, !.Report = 2]} : codec' = [codec EXCEPT !.msg.Header = h]
    /\ UNCHANGED connVars
    /\ UNCHANGED <<bridge, quant, snap, mqq>>

\* err := msg.SetProperty(key, value)
SetMessageProperty ==
    /\ codec.op = "message"
    /\ codec.sets < MaxProps
    /\ \E key \in Keys, v \in NativeValues :
          LET r == SetProperty(codec.msg, key, v)
          IN  codec' = [codec EXCEPT !.msg = r.msg, !.err = r.err, !.sets = @ + 1,
                                     !.call = [op |-> "SetProperty", key |-> key,
                                               given |-> v]]
    /\ UNCHANGED connVars
    /\ UNCHANGED <<bridge, quant, snap, mqq>>

\* encoded, _ := msg.Encode(); copy, err := DecodeBridgeMessage(encoded)
EncodeDecode ==
    /\ codec.op = "message"
    /\ \E order \in Orders(codec.msg.Properties) :
          codec' = [op |-> "decoded", msg |-> codec.msg,
                    encoded |-> Encode(codec.msg, order),
                    copy |-> DecodeBridgeMessage(Encode(codec.msg, order))]
    /\ UNCHANGED connVars
    /\ UNCHANGED <<bridge, quant, snap, mqq>>

\* A message got from a queue: its descriptor, its payload, and a message handle
MQMessage ==
    /\ codec.op = "none"
    /\ \E md \in MQMDs, payload \in Bodies :
          codec' = [op |-> "mq", mqmd |-> md, handle |-> EmptyHandle,
                    payload |-> payload, sets |-> 0, native |-> NoProperties,
                    err |-> FALSE]
    /\ UNCHANGED connVars
    /\ UNCHANGED <<bridge, quant, snap, mqq>>

\* err := handle.SetMP(smpo, name, pd, value); native keeps the Go value given
SetHandleProperty ==
    /\ codec.op = "mq"
    /\ codec.sets < MaxProps
    /\ \E name \in Keys, v \in NativeValues :
          LET r == SetMP(codec.handle, name, v)
          IN  codec' = [codec EXCEPT
                          !.handle = r.handle, !.err = r.err, !.sets = @ + 1,
                          !.native = IF r.err THEN @
                                     ELSE [k \in DOMAIN @ \cup {name} |->
                                              IF k = name THEN v ELSE @[k]]]
    /\ UNCHANGED connVars
    /\ UNCHANGED <<bridge, quant, snap, mqq>>

\* encoded, _, _ := bridge.mqToNATSMessage(mqmd, handle, payload, len(payload), qMgr)
\* mqmd, handleOut, result, err := bridge.natsToMQMessage(encoded, "", qMgr)
Translate ==
    /\ codec.op = "mq"
    /\ \E order \in Orders(codec.handle) :
          LET encoded == mqToNATSMessage(codec.mqmd, codec.handle, codec.payload,
                                         Len(codec.payload), FALSE, order)
          IN  codec' = [op |-> "translated", mqmd |-> codec.mqmd,
                        handle |-> codec.handle, native |-> codec.native,
                        payload |-> codec.payload, encoded |-> encoded,
                        back |-> natsToMQMessage(encoded, <<>>, FALSE)]
    /\ UNCHANGED connVars
    /\ UNCHANGED <<bridge, quant, snap, mqq>>

\* result, _, _ := bridge.mqToNATSMessage(mqmd, handle, payload, len(payload), nil)
\* mqmd, _, result, err := bridge.natsToMQMessage(payload, "", nil)
PassThrough ==
    /\ codec.op = "mq"
    /\ \E order \in Orders(codec.handle) :
          codec' = [op |-> "passed", mqmd |-> codec.mqmd, handle |-> codec.handle,
                    payload |-> codec.payload,
                    raw |-> mqToNATSMessage(codec.mqmd, codec.handle, codec.payload,
                                            Len(codec.payload), TRUE, order),
                    back |-> natsToMQMessage(codec.payload, <<>>, TRUE)]
    /\ UNCHANGED connVars
    /\ UNCHANGED <<bridge, quant, snap, mqq>>

CodecNext ==
    \/ NewMessage
    \/ SetHeader
    \/ SetMessageProperty
    \/ EncodeDecode
    \/ MQMessage
    \/ SetHandleProperty
    \/ Translate
    \/ PassThrough

CodecSpec == CodecInit /\ [][CodecNext]_vars

\* ------------------------------------------------------------------ the properties of a message set and deleted

MaxPropertyCalls == 3

\* msg := NewBridgeMessage(nil); calls keeps every call made on msg since, with what
\* it returned and what HasProperty and GetTypedProperty answered for its key after it
NewPropertyMessage ==
    /\ codec.op = "none"
    /\ codec' = [op |-> "properties", msg |-> NewBridgeMessage(<<>>), calls |-> <<>>]
    /\ UNCHANGED connVars
    /\ UNCHANGED <<bridge, quant, snap, mqq>>

\* err := msg.SetProperty(key, value)
SetProp ==
    /\ codec.op = "properties"
    /\ Len(codec.calls) < MaxPropertyCalls
    \* the values given: a string, a native int, nil and a list of strings
    /\ \E key \in Keys,
          v \in {x \in NativeValues : x.type \in {"string", "int", "null", "[]string"}} :
          LET r == SetProperty(codec.msg, key, v)
          IN  codec' = [codec EXCEPT
                          !.msg = r.msg,
                          !.calls = Append(@, [op |-> "SetProperty", key |-> key,
                                               given |-> v, err |-> r.err, old |-> Null,
                                               has |-> HasProperty(r.msg, key),
                                               get |-> GetTypedProperty(r.msg, key)])]
    /\ UNCHANGED connVars
    /\ UNCHANGED <<bridge, quant, snap, mqq>>

\* old := msg.DeleteProperty(key)
DeleteProp ==
    /\ codec.op = "properties"
    /\ Len(codec.calls) < MaxPropertyCalls
    /\ \E key \in Keys :
          LET r == DeleteProperty(codec.msg, key)
          IN  codec' = [codec EXCEPT
                          !.msg = r.msg,
                          !.calls = Append(@, [op |-> "DeleteProperty", key |-> key,
                                               given |-> Null, err |-> FALSE,
                                               old |-> r.old,
                                               has |-> HasProperty(r.msg, key),
                                               get |-> GetTypedProperty(r.msg, key)])]
    /\ UNCHANGED connVars
    /\ UNCHANGED <<bridge, quant, snap, mqq>>

PropertyNext ==
    \/ NewPropertyMessage
    \/ SetProp
    \/ DeleteProp

PropertySpec == CodecInit /\ [][PropertyNext]_vars

\* ------------------------------------------------------------------ claims

\* C1: Shutdown called twice in a row on a started connector returns success both
\* times and closes the MQ queue object exactly once over the two calls.
DoubleShutdownIsNoOp ==
    (obs.started /\ Len(obs.sdSeq) = 2)
        => (obs.sdSeq = <<"nil", "nil">> /\ obs.sdCloses = 1)

\* C2: in Queue2STAN every message handled without an MQ error is published and
\* then ends with exactly one syncpoint call: Cmit when the publish succeeded, Back
\* when it failed.
CmitIffPublished ==
    kind = "Queue2STAN"
        => /\ Len(out.sent) = mq.stats.msgIn
           /\ Len(out.tx) = Len(out.sent)
           /\ \A i \in 1 .. Len(out.tx) :
                 out.tx[i] = IF out.sent[i].ok THEN "Cmit" ELSE "Back"

CmitAndBackSeen ==
    /\ kind = "Queue2STAN"
    /\ \E i, j \in 1 .. Len(out.tx) :
          /\ out.tx[i] = "Cmit" /\ out.sent[i].ok
          /\ out.tx[j] = "Back" /\ ~out.sent[j].ok

\* C3: a message whose conversion failed is not forwarded to the output side.
ConvertFailureNotForwarded ==
    \A i \in 1 .. Len(out.sent) : ~out.sent[i].convErr

\* C4: once the closed handler has dispatched a Stop, the supervisor's Stop
\* eventually completes, with no Stop left blocked and the connector Stopped.
ClosedCallbackStopsBridge ==
    (bridge.dispatched > 0)
        ~> (bridge.spawned = 0 /\ bridge.lock = "free" /\ bridge.stopsDone > 0
            /\ ConnectorStopped)

\* C5: Shutdown never waits, holding the connector mutex, for the MQ callback
\* dispatcher to stop while an invoked callback waits for that mutex.
ShutdownNeverWaitsForCallback ==
    ~(lock = "Shutdown" /\ inflight # {})

\* C6: a Start called on a Running connector is rejected: it returns an error, makes
\* no library call, and the connector's connections stay at one at most.
RunningStartIsRejected ==
    (last.op = "Start" /\ obs.restart)
        => (last.ret = "error" /\ last.log = <<>> /\ Cardinality(mqi.conns) <= 1)

\* The library calls of a successful Start, in order
StartCalls(k) ==
    IF k = "NATS2Queue"
    THEN <<"Output", "Connx", "Open", "Subscribe">>
    ELSE <<"Output", "Connx", "Open", "CB", "CtlStart">>

StepCall(f) ==
    CASE f = "output" -> "Output"
      [] f = "connect" -> "Connx"
      [] f = "open" -> "Open"
      [] f = "cb" -> "CB"
      [] f = "ctl" -> "CtlStart"
      [] f = "sub" -> "Subscribe"

\* The log stops at the failed call f: every call before it succeeded, none follows
StopsAt(log, k, f) ==
    /\ Len(log) >= 1
    /\ Len(log) <= Len(StartCalls(k))
    /\ log[Len(log)] = [op |-> StepCall(f), ok |-> FALSE]
    /\ \A i \in 1 .. Len(log) - 1 : log[i] = [op |-> StartCalls(k)[i], ok |-> TRUE]

\* C7: a Start one of whose steps fails returns the error, makes none of the later
\* calls and leaves the connect count alone; with the output side unavailable the
\* MQ library is not touched.
StartAbortsOnFailure ==
    [][ (obs'.calls # obs.calls /\ last'.op = "Start" /\ last'.failAt # "none")
          => /\ last'.ret = "error"
             /\ StopsAt(last'.log, kind, last'.failAt)
             /\ mq'.stats.connects = mq.stats.connects
             /\ (last'.failAt = "output" => mqi' = mqi /\ mq' = mq) ]_vars

StartFailedAtOpen ==
    /\ last.op = "Start"
    /\ last.failAt = "open"
    /\ last.ret = "error"
    /\ mq.qMgr # 0
    /\ mq.queue = 0
    /\ mq.stats.connects = 0

ReleaseRank(op) ==
    CASE op = "CtlStop" -> 1
      [] op = "Close" -> 2
      [] op = "Disc" -> 3
      [] op = "Unsubscribe" -> 4

\* C8: Shutdown stops the callback dispatcher before it closes the MQ object, closes
\* the object before it disconnects the queue manager, and unsubscribes last.
ShutdownReleaseOrder ==
    last.op = "Shutdown"
        => \A i, j \in 1 .. Len(last.log) :
              i < j => ReleaseRank(last.log[i].op) < ReleaseRank(last.log[j].op)

ShutdownReleasedThree ==
    /\ last.op = "Shutdown"
    /\ Len(last.log) = 3
    /\ last.ret \in {"nil", "error"}

\* C9: a Shutdown that returns has made every release call whose handle the
\* connector held, whichever of them failed, and leaves the connector with no
\* queue, queue-manager or subscription handle.
ShutdownCompletesAllSteps ==
    [][ (last'.op = "Shutdown" /\ obs'.sdSeq # obs.sdSeq /\ last'.ret \in {"nil", "error"})
          => /\ mq'.queue = 0 /\ mq'.qMgr = 0 /\ mq'.sub = 0
             /\ (mq.queue # 0 => Calls(last'.log, "Close") = 1)
             /\ (mq.qMgr # 0 => Calls(last'.log, "Disc") = 1)
             /\ (mq.sub # 0 => Calls(last'.log, "Unsubscribe") = 1)
             /\ ((mq.ctlo \/ mq.shutdownCB # 0) => Calls(last'.log, "CtlStop") = 1) ]_vars

ShutdownWentOnAfterFailure ==
    /\ last.op = "Shutdown"
    /\ last.ret \in {"nil", "error"}
    /\ \E i \in 1 .. Len(last.log) - 1 : ~last.log[i].ok
    /\ ConnectorStopped

\* C10: a handler invoked with "no message available" changes nothing of the
\* connector: no counter, no handle, nothing published, no Cmit or Back, no
\* ConnectorError.
NoMessageIsHeartbeat ==
    [][ (inflight' # inflight /\ inflight' \subseteq inflight
         /\ last'.op = "messageHandler" /\ last'.mqErr = "nomsg")
          => UNCHANGED <<mq, mqi, subs, out, crashed, lock>> ]_vars

HeartbeatHandled ==
    /\ kind = "Queue2STAN"
    /\ last.op = "messageHandler"
    /\ last.mqErr = "nomsg"
    /\ mq.stats.connects = 1

\* C11: an MQ callback with a failed completion other than "no message available"
\* starts one ConnectorError task, forwards nothing and counts no message in; and
\* once a ConnectorError was started the supervisor's Stop eventually completes
\* with the connector Stopped.
FatalCallbackStopsBridge ==
    /\ [][ (inflight' # inflight /\ inflight' \subseteq inflight
            /\ last'.op = "messageHandler" /\ last'.mqErr = "fatal")
             => /\ out'.connErrs = out.connErrs + 1
                /\ out'.sent = out.sent
                /\ out'.tx = out.tx
                /\ mq' = mq ]_vars
    /\ (out.connErrs > 0) ~> (bridge.stopsDone > 0 /\ ~bridge.running /\ ConnectorStopped)

\* C13: a handler that forwards a message is the handler of the oldest message the
\* input library has delivered and that is not handled yet.
HandlersKeepDeliveryOrder ==
    [][ (Len(out'.sent) > Len(out.sent)) => (last'.src = Head(obs.pending)) ]_vars

\* C14: the closed handler clears the running flag before it dispatches the Stop, so
\* closed callbacks dispatch one Stop at most.
ClosedCallbacksAreIdempotent ==
    /\ bridge.dispatched <= 1
    /\ (bridge.dispatched > 0 => ~bridge.running)

\* The number of times id occurs in a sequence
Times(seq, id) ==
    Cardinality({i \in 1 .. Len(seq) : seq[i] = id})

\* C12: in Queue2STAN a message whose publish failed is backed out and delivered
\* again, and once publishes succeed it is published and committed: a message put on
\* the queue is never lost and never received twice (it is held by MQ until it is
\* received, and after that only for the time the handler takes from its publish
\* to its Cmit), and it is received in the end.
RedeliveredExactlyOnce ==
    /\ [](\A id \in 1 .. mqq.puts :
            LET received == Times(mqq.received, id)
                held     == Times(mqq.queue, id) + Times(mqq.uow, id)
            IN  /\ received <= 1
                /\ held <= 1
                /\ received + held >= 1
                /\ (received + held > 1) => (mqq.pub = "ok" /\ Times(mqq.uow, id) = 1))
    /\ \A id \in 1 .. MaxPuts :
            (mqq.puts >= id) ~> (Times(mqq.received, id) = 1 /\ Times(mqq.queue, id) = 0
                                 /\ Times(mqq.uow, id) = 0)

ReceivedAfterBackout ==
    \E id \in mqq.backed :
        /\ Times(mqq.received, id) = 1
        /\ Times(mqq.queue, id) + Times(mqq.uow, id) = 0

\* C15: what a snapshot returned by Stats() shows does not change afterwards: its
\* counters, and the bins and total of the latency histogram it gives access to.
SnapshotIsValueCopy ==
    snap.taken => (Deref(snap.stats.histogram) = snap.seen)

\* C16: after any sequence of Add and MergeWith (and Scale) the histogram has
\* MaxBins bins at most.
BinsWithinMaxBins ==
    Len(histogram.Bins) <= histogram.MaxBins

\* C17: after any sequence of Add, MergeWith and Scale the bins are in ascending
\* order of value.
BinsSortedAscending ==
    \A i \in 1 .. Len(histogram.Bins) - 1 :
        ~FLess(histogram.Bins[i + 1].Value, histogram.Bins[i].Value)

\* The samples counted in the first k bins
RECURSIVE Cumulative(_, _)
Cumulative(b, k) ==
    IF k = 0 THEN 0 ELSE Cumulative(b, k - 1) + b[k].Count

\* C18: Quantile(q) is -1 on a histogram of total zero; otherwise, for q from 0 to 1,
\* it is the value of the first bin at which the cumulative count reaches q*total,
\* and it does not decrease as q grows.
QuantileContract ==
    quant.read =>
        LET b == histogram.Bins
            T == histogram.Total
        IN  IF T = 0
            THEN \A i \in 1 .. Len(Quantiles) : quant.at[i] = Float(-1, 1)
            ELSE \A i \in 1 .. Len(Quantiles) :
                    LET q     == Quantiles[i]
                        reach == {k \in 1 .. Len(b) : Cumulative(b, k) * q[2] >= q[1] * T}
                    IN  /\ reach # {}
                        /\ \E k \in reach :
                              /\ \A j \in reach : k <= j
                              /\ quant.at[i] = b[k].Value
                        /\ \A j \in i + 1 .. Len(Quantiles) :
                              ~FLess(quant.at[j], quant.at[i])

\* C19: encoding a bridge message and decoding the result gives a message equal to
\* the original field for field: the same body bytes, the same value of every
\* header field, and for every property key the same value with the same type.
EncodeDecodeRoundTrips ==
    codec.op = "decoded" =>
        /\ codec.copy.ok
        /\ codec.copy.msg.Body = codec.msg.Body
        /\ \A f \in FieldNames : codec.copy.msg.Header[f] = codec.msg.Header[f]
        /\ DOMAIN codec.copy.msg.Properties = DOMAIN codec.msg.Properties
        /\ \A k \in DOMAIN codec.msg.Properties :
              /\ codec.copy.msg.Properties[k].type = codec.msg.Properties[k].type
              /\ codec.copy.msg.Properties[k].val = codec.msg.Properties[k].val

\* A message with a body, every header field set and the same number under two
\* keys in two integer widths has been encoded and decoded.
DecodedTypedMessage ==
    /\ codec.op = "decoded"
    /\ codec.msg.Body = HelloWorld
    /\ codec.msg.Header = TestMQMD
    /\ DOMAIN codec.msg.Properties = Keys
    /\ \E k1, k2 \in Keys :
          /\ codec.msg.Properties[k1] = [type |-> "int8", val |-> 17]
          /\ codec.msg.Properties[k2] = [type |-> "int16", val |-> 17]
    /\ codec.copy.ok

\* C20: converting an MQ message to an envelope and back with a queue manager
\* returns the original payload, every descriptor field but the six the receiving
\* queue manager sets (version, msgType, expiry, backoutCount, putDate, putTime),
\* the identifiers byte for byte, and every property of the message handle on the
\* new handle with its type: a Go int as int64, null as null.
TranslationRoundTrips ==
    codec.op = "translated" =>
        /\ ~codec.back.err
        /\ codec.back.data = codec.payload
        /\ \A f \in FieldNames \ {"Version", "MsgType", "Expiry", "BackoutCount",
                                  "PutDate", "PutTime"} :
              codec.back.mqmd[f] = codec.mqmd[f]
        /\ DOMAIN codec.back.handle = DOMAIN codec.native
        /\ \A name \in DOMAIN codec.native :
              /\ InqMP(codec.back.handle, name).ok
              /\ InqMP(codec.back.handle, name).value.type =
                    (IF codec.native[name].type = "int" THEN "int64"
                     ELSE codec.native[name].type)
              /\ InqMP(codec.back.handle, name).value.val = codec.native[name].val

\* The test's descriptor with a Go int and a null property has been converted to an
\* envelope and back.
TranslatedIntAndNull ==
    /\ codec.op = "translated"
    /\ codec.mqmd = TestMQMD
    /\ codec.payload = HelloWorld
    /\ \E n1, n2 \in Keys :
          /\ n1 \in DOMAIN codec.native /\ codec.native[n1].type = "int"
          /\ n2 \in DOMAIN codec.native /\ codec.native[n2].type = "null"
          /\ InqMP(codec.back.handle, n1).value = [type |-> "int64", val |-> <<0, 0, 356>>]
          /\ InqMP(codec.back.handle, n2).value.type = "null"

\* C21: with a nil queue manager mqToNATSMessage returns the payload it was given
\* unchanged, and natsToMQMessage returns the bytes it was given as the payload, with
\* a descriptor whose Expiry, Version, OriginalLength and Format are those of a new
\* default descriptor, whatever the payload.
NilQueueManagerPassesThrough ==
    codec.op = "passed" =>
        /\ codec.raw = codec.payload
        /\ ~codec.back.err
        /\ codec.back.data = codec.payload
        /\ \A f \in {"Expiry", "Version", "OriginalLength", "Format"} :
              codec.back.mqmd[f] = NewMQMD[f]

\* A payload got with a descriptor that is not the default one, and with a property
\* on its handle, has been converted both ways without a queue manager.
PassedWithDescriptor ==
    /\ codec.op = "passed"
    /\ codec.payload = HelloWorld
    /\ codec.mqmd = TestMQMD
    /\ codec.handle # EmptyHandle
    /\ codec.raw = HelloWorld

\* C22: SetProperty succeeds for a value of each of the ten supported types and for
\* a native int, which it stores as an int64 of the same value; it returns an error
\* for a value of any other type, and the key is then not present with that value.
SetPropertyTypeChecked ==
    (codec.op = "message" /\ codec.call.op = "SetProperty") =>
        LET v == codec.call.given
            k == codec.call.key
            p == codec.msg.Properties
        IN  IF v.type \in {"null", "bool", "int8", "int16", "int32", "int64",
                           "float32", "float64", "string", "bytes"}
            THEN ~codec.err /\ k \in DOMAIN p /\ p[k] = v
            ELSE IF v.type = "int"
            THEN ~codec.err /\ k \in DOMAIN p /\ p[k] = [type |-> "int64", val |-> v.val]
            ELSE codec.err /\ (k \in DOMAIN p => p[k] # v)

\* A list of strings was given for a key that held a value, and was rejected.
RejectedOnSetKey ==
    /\ codec.op = "message"
    /\ codec.call.op = "SetProperty"
    /\ codec.call.given.type = "[]string"
    /\ codec.err
    /\ codec.call.key \in DOMAIN codec.msg.Properties

\* The calls before the i-th that changed what key holds: SetProperty calls that
\* succeeded and DeleteProperty calls
Changes(calls, i, key) ==
    {j \in 1 .. i - 1 : calls[j].key = key /\ ~calls[j].err}

\* What key holds before the i-th call, going by the calls made: the value of the
\* last SetProperty if no DeleteProperty followed it, a native int as an int64
Held(calls, i, key) ==
    IF Changes(calls, i, key) = {} THEN [set |-> FALSE, value |-> Null]
    ELSE LET j == CHOOSE x \in Changes(calls, i, key) :
                      \A y \in Changes(calls, i, key) : y <= x
         IN  IF calls[j].op = "DeleteProperty" THEN [set |-> FALSE, value |-> Null]
             ELSE [set |-> TRUE,
                   value |-> IF calls[j].given.type = "int"
                             THEN [type |-> "int64", val |-> calls[j].given.val]
                             ELSE calls[j].given]

\* C23: after any sequence of SetProperty and DeleteProperty calls, DeleteProperty(k)
\* returns the value most recently set for k, or nil when k is absent; HasProperty(k)
\* is false after it until k is set again; and a property set to nil is present,
\* with the value nil.
DeletePropertyContract ==
    codec.op = "properties" =>
        /\ \A i \in 1 .. Len(codec.calls) :
              LET call == codec.calls[i]
              IN  /\ call.op = "DeleteProperty" =>
                        /\ call.old = Held(codec.calls, i, call.key).value
                        /\ ~call.has
                  /\ (call.op = "SetProperty" /\ ~call.err) =>
                        /\ call.has
                        /\ call.get = [ok |-> TRUE,
                                       value |-> Held(codec.calls, i + 1, call.key).value]
        /\ \A k \in Keys :
              HasProperty(codec.msg, k) = Held(codec.calls, Len(codec.calls) + 1, k).set

\* A key was set to nil, deleted and set again, while the other key was never set.
SetNilDeletedSetAgain ==
    /\ codec.op = "properties"
    /\ Len(codec.calls) = 3
    /\ \E k \in Keys :
          /\ \A i \in 1 .. 3 : codec.calls[i].key = k
          /\ codec.calls[1].op = "SetProperty" /\ codec.calls[1].given.type = "null"
          /\ codec.calls[1].has
          /\ codec.calls[2].op = "DeleteProperty" /\ ~codec.calls[2].has
          /\ codec.calls[3].op = "SetProperty" /\ codec.calls[3].given.type = "string"
          /\ HasProperty(codec.msg, k)

\* C24: a handler gives the conversion a nil queue manager if and only if
\* ExcludeHeaders is set; so with ExcludeHeaders set what it forwards is the input
\* payload as it is, and with it unset what it forwards is an envelope of the input
\* payload.  (qmgrFlag is what the handlers of NATS2Queue and Queue2STAN compute.)
HandlerExcludesHeadersIffSet ==
    [][ (inflight' # inflight /\ inflight' \subseteq inflight
         /\ last'.op = "messageHandler" /\ last'.mqErr = "nil")
          => /\ kind \in {"NATS2Queue", "Queue2STAN"} =>
                   ((qmgrFlag(World) = 0) <=> excludeHeaders)
             /\ Len(out'.sent) > Len(out.sent) =>
                   LET m == out'.sent[Len(out'.sent)]
                   IN  IF excludeHeaders
                       THEN ~m.env /\ ~m.convErr /\ m.len = PayloadLen
                       ELSE m.env /\ ~m.convErr /\ m.len = PayloadLen + EnvelopeOverhead
       ]_vars

\* A handler invocation that got past the check of the MQ completion returns (or panics)
AcceptedStep ==
    /\ inflight' # inflight
    /\ inflight' \subseteq inflight
    /\ last'.op = "messageHandler"
    /\ last'.mqErr = "nil"

\* The step forwarded a message and the output side took it
ForwardedStep ==
    /\ Len(out'.sent) = Len(out.sent) + 1
    /\ out'.sent[Len(out'.sent)].ok

\* C25: the message-in count and bytes-in grow with every message a handler accepts;
\* the message-out count, bytes-out and the latency histogram change only when the
\* forward succeeded; so the message-out count never exceeds the message-in count
\* and the histogram holds as many samples as messages went out.
StatsFollowForwards ==
    /\ [](/\ mq.stats.msgOut <= mq.stats.msgIn
          /\ histogram.Total = mq.stats.msgOut)
    /\ [][ /\ AcceptedStep =>
                 /\ mq'.stats.msgIn = mq.stats.msgIn + 1
                 /\ mq'.stats.bytesIn = mq.stats.bytesIn + PayloadLen
           /\ (\/ mq'.stats.msgOut # mq.stats.msgOut
               \/ mq'.stats.bytesOut # mq.stats.bytesOut
               \/ histogram' # histogram) =>
                 /\ AcceptedStep
                 /\ ForwardedStep
                 /\ mq'.stats.msgOut = mq.stats.msgOut + 1
                 /\ histogram'.Total = histogram.Total + 1
         ]_vars

\* One message was forwarded and counted out, another was accepted and not forwarded.
CountedInNotOut ==
    /\ mq.stats.msgIn = 2
    /\ mq.stats.msgOut = 1
    /\ histogram.Total = 1
    /\ Len(out.sent) = 2
    /\ \E i \in 1 .. 2 : ~out.sent[i].ok

\* C26: a handler never uses a queue or queue-manager handle that Shutdown has
\* released: it makes no Put on a nil or closed queue and no Cmit or Back on a nil
\* or disconnected queue manager (a call on a nil handle is the panic).
HandlerUsesLiveHandles ==
    [][ (inflight' # inflight /\ inflight' \subseteq inflight
         /\ last'.op = "messageHandler")
          => /\ ~crashed'
             /\ Len(out'.tx) > Len(out.tx) => mq.qMgr \in mqi.conns
             /\ (kind = "NATS2Queue" /\ Len(out'.sent) > Len(out.sent)) =>
                   \E o \in mqi.objs : o[1] = mq.queue
       ]_vars

\* C27: after any sequence of Start and Shutdown calls that ends with a Shutdown,
\* Starts that failed part-way included, every queue-manager connection and every MQ
\* object the connector opened has been disconnected or closed (where no Close or
\* Disc call was refused by MQ).
ShutdownLeavesNoHandleOpen ==
    (last.op = "Shutdown" /\ last.ret = "nil" /\ ~obs.relFailed) =>
        (mqi.conns = {} /\ mqi.objs = {})

\* C28: a connector's disconnect count is never above its connect count: a
\* disconnect is counted only for a Shutdown that follows a successful Start, not
\* for a Shutdown of a connector never started, failed to start or already stopped.
DisconnectsWithinConnects ==
    mq.stats.disconnects <= mq.stats.connects

RECURSIVE SumCounts(_)
SumCounts(bins) ==
    IF bins = <<>> THEN 0 ELSE Head(bins).Count + SumCounts(Tail(bins))

\* C29: after any sequence of Add and MergeWith operations on histograms with
\* MaxBins >= 1 the histogram's Total is the sum of the counts of its bins (trim
\* merges bins without losing or inventing samples), and MergeWith leaves the bins
\* and the total of the other histogram as they were, whatever histogram it is
\* called with.
TotalIsSumOfCounts ==
    /\ histogram.MaxBins >= 1 => histogram.Total = SumCounts(histogram.Bins)
    /\ histogram.MaxBins >= 1 /\ quant.op = "MergeWith" => quant.otherAfter = quant.other

\* C29: after any sequence of Add and MergeWith operations on histograms with
\* MaxBins >= 1 the histogram's Total is the sum of the counts of its bins, and a
\* MergeWith called with another histogram than its receiver leaves the bins and
\* the total of that histogram as they were; called with its receiver, the
\* histogram it was called with is the receiver after the merge.
TotalIsSumAndAnotherUnchanged ==
    /\ histogram.MaxBins >= 1 => histogram.Total = SumCounts(histogram.Bins)
    /\ quant.op = "MergeWith" /\ ~quant.self => quant.otherAfter = quant.other
    /\ quant.op = "MergeWith" /\ quant.self => quant.otherAfter = histogram

\* Another histogram than the receiver, of two bins, was merged into a histogram
\* that held samples, and the bins have been trimmed.
MergedAndTrimmed ==
    /\ quant.op = "MergeWith"
    /\ ~quant.self
    /\ quant.other.Total = 2
    /\ Len(quant.other.Bins) = 2
    /\ quant.trims > 0
    /\ histogram.Total >= 4
    /\ Len(histogram.Bins) = histogram.MaxBins

====
